---------------------------- MODULE Spec2Model ----------------------------
(***************************************************************************)
(* State-machine model of the msedge-tts client (src/src/tts): the frame   *)
(* codec (process_message), the one-shot clients (MSEdgeTTSClient and      *)
(* MSEdgeTTSClientAsync) and the stream halves (Sender/Reader and          *)
(* SenderAsync/ReaderAsync).                                               *)
(*                                                                         *)
(* Conventions.  A Rust Result/Option/panic outcome is a record with a     *)
(* "tag" field.  A text frame is a sequence of tokens (strings); the       *)
(* substring tests of the code (str::contains, str::find) are tests on the *)
(* tokens.  A binary frame is a sequence of bytes (0..255).                *)
(***************************************************************************)
EXTENDS Integers, Sequences, FiniteSets, TLC

\* ------------------------------------------------------------------ bounds

\* Frames one synthesize call may read before the model stops delivering.
MaxFrames == 3

\* synthesize calls made on one client.
MaxCalls == 2

\* --------------------------------------------------------------- sequences

RECURSIVE Flatten(_)
\* Concatenation of a sequence of sequences, in order.
Flatten(ss) ==
    IF ss = <<>> THEN <<>> ELSE Head(ss) \o Flatten(Tail(ss))

\* Some(i) for the first index of tok in toks, None (0) when absent.
FirstIndex(toks, tok) ==
    IF \E i \in 1..Len(toks) : toks[i] = tok
    THEN CHOOSE i \in 1..Len(toks) :
            /\ toks[i] = tok
            /\ \A j \in 1..(i - 1) : toks[j] # tok
    ELSE 0

\* str::contains on the token sequence of a text frame.
Contains(toks, tok) == \E i \in 1..Len(toks) : toks[i] = tok

\* The tokens after position i (text[index + 4..] for the separator token).
Rest(toks, i) == SubSeq(toks, i + 1, Len(toks))

\* ------------------------------------------------------------------- JSON
\* serde_json::Value, as far as AudioMetadata::from_str looks at it.

JNull == [ty |-> "null", n |-> 0, s |-> "", a |-> <<>>, o |-> <<>>]
JNum(x) == [ty |-> "num", n |-> x, s |-> "", a |-> <<>>, o |-> <<>>]
JStr(x) == [ty |-> "str", n |-> 0, s |-> x, a |-> <<>>, o |-> <<>>]
JArr(x) == [ty |-> "arr", n |-> 0, s |-> "", a |-> x, o |-> <<>>]
\* An object is a sequence of <<key, value>> members.
JObj(x) == [ty |-> "obj", n |-> 0, s |-> "", a |-> <<>>, o |-> x]

\* value[key]: the member, Null when value is no object or has no such key.
JIndex(v, key) ==
    IF v.ty = "obj" /\ \E i \in 1..Len(v.o) : v.o[i][1] = key
    THEN v.o[CHOOSE i \in 1..Len(v.o) : v.o[i][1] = key][2]
    ELSE JNull

\* Option<&str> as a string, "None" when absent.
NoneStr == "None"
as_str(v) == IF v.ty = "str" THEN v.s ELSE NoneStr

\* Faulty variant of as_u64_or_0: a negative number is passed on.
as_i64_or_0(v) == IF v.ty = "num" THEN v.n ELSE 0

\* as_u64().unwrap_or(0): the number when it is a non-negative integer.
as_u64_or_0(v) == IF v.ty = "num" /\ v.n >= 0 THEN v.n ELSE 0

\* The JSON documents the server's metadata frames carry in this model.
WordItem(off, dur, txt, len) ==
    JObj(<< <<"Type", JStr("WordBoundary")>>,
            <<"Data", JObj(<< <<"Offset", JNum(off)>>,
                              <<"Duration", JNum(dur)>>,
                              <<"text", JObj(<< <<"Text", JStr(txt)>>,
                                                <<"Length", JNum(len)>>,
                                                <<"BoundaryType", JStr("Word")>> >>)>> >>)>> >>)

\* An element with no Type, a negative Offset and a numeric Text.
OddItem ==
    JObj(<< <<"Data", JObj(<< <<"Offset", JNum(0 - 1)>>,
                              <<"text", JObj(<< <<"Text", JNum(7)>> >>)>> >>)>> >>)

JsonTokens ==
    {"json:M1", "json:M2", "json:Odd", "json:Empty", "json:NoArray", "json:NoKey",
     "json:Scalar"}

\* serde_json::from_str on one body token.
JsonDoc(tok) ==
    CASE tok = "json:M1" ->
            JObj(<< <<"Metadata", JArr(<<WordItem(100, 50, "Hi", 2)>>)>> >>)
      [] tok = "json:M2" ->
            JObj(<< <<"Metadata", JArr(<<WordItem(200, 10, "a", 1),
                                         WordItem(300, 20, "b", 1)>>)>> >>)
      [] tok = "json:Odd" ->
            JObj(<< <<"Metadata", JArr(<<OddItem>>)>> >>)
      [] tok = "json:Empty" ->
            JObj(<< <<"Metadata", JArr(<<>>)>> >>)
      [] tok = "json:NoArray" ->
            JObj(<< <<"Metadata", JStr("x")>> >>)
      [] tok = "json:NoKey" ->
            JObj(<< <<"Other", JArr(<<>>)>> >>)
      [] tok = "json:Scalar" ->
            JNum(3)
      [] OTHER -> JNull

\* ------------------------------------------------------- results of a call

OkNone ==
    [tag |-> "OkNone", bytes |-> <<>>, index |-> 0, metadata |-> <<>>, err |-> "",
     raw |-> <<>>]
OkAudioBytes(b, i) ==
    [tag |-> "OkAudioBytes", bytes |-> b, index |-> i, metadata |-> <<>>, err |-> "",
     raw |-> <<>>]
OkAudioMetadata(m) ==
    [tag |-> "OkAudioMetadata", bytes |-> <<>>, index |-> 0, metadata |-> m, err |-> "",
     raw |-> <<>>]
Err(e) ==
    [tag |-> "Err", bytes |-> <<>>, index |-> 0, metadata |-> <<>>, err |-> e,
     raw |-> <<>>]
\* Error::UnexpectedMessage(format!("unexpected ..: {}", raw)): the error
\* carries the text it was raised for.
ErrUnexpected(raw) ==
    [tag |-> "Err", bytes |-> <<>>, index |-> 0, metadata |-> <<>>,
     err |-> "UnexpectedMessage", raw |-> raw]
\* The thread panics (index out of bounds); nothing is returned.
Panic ==
    [tag |-> "Panic", bytes |-> <<>>, index |-> 0, metadata |-> <<>>, err |-> "",
     raw |-> <<>>]

\* ------------------------------------------------------------ frame codec

\* One element of the Metadata array as an AudioMetadata value.
AudioMetadataOf(item) ==
    [metadata_type |-> as_str(JIndex(item, "Type")),
     offset        |-> as_u64_or_0(JIndex(JIndex(item, "Data"), "Offset")),
     duration      |-> as_u64_or_0(JIndex(JIndex(item, "Data"), "Duration")),
     text          |-> as_str(JIndex(JIndex(JIndex(item, "Data"), "text"), "Text")),
     length        |-> as_u64_or_0(JIndex(JIndex(JIndex(item, "Data"), "text"), "Length")),
     boundary_type |-> as_str(JIndex(JIndex(JIndex(item, "Data"), "text"), "BoundaryType"))]

\* Faulty variant of AudioMetadata_from_str: a document without an array
\* under "Metadata" yields no events instead of an error.
AudioMetadata_from_str_lenient(toks) ==
    IF ~(Len(toks) = 1 /\ toks[1] \in JsonTokens)
    THEN Err("SerdeJson")
    ELSE LET items == JIndex(JsonDoc(toks[1]), "Metadata")
         IN  IF items.ty = "arr"
             THEN OkAudioMetadata([i \in 1..Len(items.a) |-> AudioMetadataOf(items.a[i])])
             ELSE OkAudioMetadata(<<>>)

\* AudioMetadata::from_str on the tokens after the separator: a serde_json
\* error when they are not one JSON document, UnexpectedMessage when the
\* document has no array under "Metadata", else one event per element.
AudioMetadata_from_str(toks) ==
    IF ~(Len(toks) = 1 /\ toks[1] \in JsonTokens)
    THEN Err("SerdeJson")
    ELSE LET items == JIndex(JsonDoc(toks[1]), "Metadata")
         IN  IF items.ty = "arr"
             THEN OkAudioMetadata([i \in 1..Len(items.a) |-> AudioMetadataOf(items.a[i])])
             ELSE ErrUnexpected(toks)

\* Faulty variant of header_len: the prefix read in little-endian order.
header_len_le(bytes) == bytes[2] * 256 + bytes[1]

\* u16::from_be_bytes([bytes[0], bytes[1]]) as usize
header_len(bytes) == bytes[1] * 256 + bytes[2]

\* The Binary arm of process_message while turn_start || response: indexing
\* bytes[0] and bytes[1] panics on a frame of fewer than two bytes.
BinaryArm(bytes) ==
    IF Len(bytes) < 2
    THEN Panic
    ELSE OkAudioBytes(bytes, header_len(bytes) + 2)

\* Faulty variant of TextArm: a text frame with no known path is ignored.
TextArm_lenient(text, ts, rs, te) ==
    IF Contains(text, "audio.metadata")
    THEN [res |-> IF FirstIndex(text, "\r\n\r\n") # 0
                  THEN AudioMetadata_from_str(Rest(text, FirstIndex(text, "\r\n\r\n")))
                  ELSE OkNone,
          turn_start |-> ts, response |-> rs, turn_end |-> te]
    ELSE IF Contains(text, "turn.start")
    THEN [res |-> OkNone, turn_start |-> TRUE, response |-> rs, turn_end |-> te]
    ELSE IF Contains(text, "response")
    THEN [res |-> OkNone, turn_start |-> ts, response |-> TRUE, turn_end |-> te]
    ELSE IF Contains(text, "turn.end")
    THEN [res |-> OkNone, turn_start |-> ts, response |-> rs, turn_end |-> TRUE]
    ELSE [res |-> OkNone, turn_start |-> ts, response |-> rs, turn_end |-> te]

\* A faulty variant of TextArm: a turn.start frame that arrives when the turn
\* has already started is refused and the flag is cleared.
TextArm_refuses_repeat(text, ts, rs, te) ==
    IF Contains(text, "audio.metadata")
    THEN [res |-> IF FirstIndex(text, "\r\n\r\n") # 0
                  THEN AudioMetadata_from_str(Rest(text, FirstIndex(text, "\r\n\r\n")))
                  ELSE OkNone,
          turn_start |-> ts, response |-> rs, turn_end |-> te]
    ELSE IF Contains(text, "turn.start")
    THEN [res |-> IF ts THEN ErrUnexpected(text) ELSE OkNone,
          turn_start |-> ~ts, response |-> rs, turn_end |-> te]
    ELSE IF Contains(text, "response")
    THEN [res |-> OkNone, turn_start |-> ts, response |-> TRUE, turn_end |-> te]
    ELSE IF Contains(text, "turn.end")
    THEN [res |-> OkNone, turn_start |-> ts, response |-> rs, turn_end |-> TRUE]
    ELSE [res |-> ErrUnexpected(text),
          turn_start |-> ts, response |-> rs, turn_end |-> te]

\* A faulty variant of TextArm: turn.end is tested before response.
TextArm_turn_end_first(text, ts, rs, te) ==
    IF Contains(text, "audio.metadata")
    THEN [res |-> IF FirstIndex(text, "\r\n\r\n") # 0
                  THEN AudioMetadata_from_str(Rest(text, FirstIndex(text, "\r\n\r\n")))
                  ELSE OkNone,
          turn_start |-> ts, response |-> rs, turn_end |-> te]
    ELSE IF Contains(text, "turn.start")
    THEN [res |-> OkNone, turn_start |-> TRUE, response |-> rs, turn_end |-> te]
    ELSE IF Contains(text, "turn.end")
    THEN [res |-> OkNone, turn_start |-> ts, response |-> rs, turn_end |-> TRUE]
    ELSE IF Contains(text, "response")
    THEN [res |-> OkNone, turn_start |-> ts, response |-> TRUE, turn_end |-> te]
    ELSE [res |-> ErrUnexpected(text),
          turn_start |-> ts, response |-> rs, turn_end |-> te]

\* The Text arm of process_message: the first matching substring test, in the
\* order of the code, decides.
TextArm(text, ts, rs, te) ==
    IF Contains(text, "audio.metadata")
    THEN [res |-> IF FirstIndex(text, "\r\n\r\n") # 0
                  THEN AudioMetadata_from_str(Rest(text, FirstIndex(text, "\r\n\r\n")))
                  ELSE OkNone,
          turn_start |-> ts, response |-> rs, turn_end |-> te]
    ELSE IF Contains(text, "turn.start")
    THEN [res |-> OkNone, turn_start |-> TRUE, response |-> rs, turn_end |-> te]
    ELSE IF Contains(text, "response")
    THEN [res |-> OkNone, turn_start |-> ts, response |-> TRUE, turn_end |-> te]
    ELSE IF Contains(text, "turn.end")
    THEN [res |-> OkNone, turn_start |-> ts, response |-> rs, turn_end |-> TRUE]
    ELSE [res |-> ErrUnexpected(text),
          turn_start |-> ts, response |-> rs, turn_end |-> te]

\* Faulty variant of process_message: the Binary arm without the test of
\* turn_start || response.
process_message_ungated(message, ts, rs, te) ==
    CASE message.kind = "Text" -> TextArm(message.text, ts, rs, te)
      [] message.kind = "Binary" ->
            [res |-> BinaryArm(message.bytes),
             turn_start |-> ts, response |-> rs, turn_end |-> te]
      [] message.kind = "Close" ->
            [res |-> OkNone, turn_start |-> ts, response |-> rs, turn_end |-> TRUE]
      [] OTHER ->
            [res |-> ErrUnexpected(message.text),
             turn_start |-> ts, response |-> rs, turn_end |-> te]

\* process_message(message, &mut turn_start, &mut response, &mut turn_end):
\* the result and the three flags after the call.
process_message(message, ts, rs, te) ==
    CASE message.kind = "Text" -> TextArm(message.text, ts, rs, te)
      [] message.kind = "Binary" ->
            [res |-> IF ts \/ rs THEN BinaryArm(message.bytes) ELSE OkNone,
             turn_start |-> ts, response |-> rs, turn_end |-> te]
      [] message.kind = "Close" ->
            [res |-> OkNone, turn_start |-> ts, response |-> rs, turn_end |-> TRUE]
      [] OTHER ->
            [res |-> ErrUnexpected(message.text),
             turn_start |-> ts, response |-> rs, turn_end |-> te]

\* &bytes[index..]: the bytes from index on; panics when index > len.
SliceFrom(bytes, index) ==
    IF index > Len(bytes)
    THEN Panic
    ELSE OkAudioBytes(SubSeq(bytes, index + 1, Len(bytes)), 0)

\* From<ProcessedMessage> for SynthesizedResponse: the payload is sliced out
\* of an AudioBytes message, a metadata message passes unchanged.
SynthesizedResponseFrom(m) ==
    IF m.tag = "OkAudioBytes" THEN SliceFrom(m.bytes, m.index) ELSE m

\* Faulty variant of CollectPayload: the chunks joined in reverse order.
CollectPayload_Reversed(chunks) ==
    LET n == Len(chunks)
        slices == [i \in 1..n |->
                     SliceFrom(chunks[n + 1 - i][1], chunks[n + 1 - i][2])]
    IN  IF \E i \in 1..n : slices[i].tag = "Panic"
        THEN Panic
        ELSE OkAudioBytes(Flatten([i \in 1..n |-> slices[i].bytes]), 0)

RECURSIVE CollectPayload(_)
\* audio_bytes.iter().flat_map(|(bytes, index)| &bytes[*index..]).copied()
\* .collect(): the slices in order; the first slice out of range panics.
CollectPayload(chunks) ==
    IF chunks = <<>>
    THEN OkAudioBytes(<<>>, 0)
    ELSE LET first == SliceFrom(Head(chunks)[1], Head(chunks)[2])
             rest  == CollectPayload(Tail(chunks))
         IN  IF first.tag = "Panic" \/ rest.tag = "Panic"
             THEN Panic
             ELSE OkAudioBytes(first.bytes \o rest.bytes, 0)

\* ------------------------------------------------------------------ frames

Text(toks) == [kind |-> "Text", text |-> toks, bytes |-> <<>>]
Binary(b) == [kind |-> "Binary", text |-> <<>>, bytes |-> b]
Close == [kind |-> "Close", text |-> <<>>, bytes |-> <<>>]
\* Ping, Pong and raw frames take the catch-all arm; `text` is the payload
\* as the message's Display prints it.
Ping == [kind |-> "Ping", text |-> <<"keepalive">>, bytes |-> <<>>]

TurnStartFrame == Text(<<"Path:", "turn.start", "\r\n\r\n", "{}">>)
ResponseFrame == Text(<<"Path:", "response", "\r\n\r\n", "{}">>)
TurnEndFrame == Text(<<"Path:", "turn.end", "\r\n\r\n", "{}">>)
MetadataFrame(j) == Text(<<"Path:", "audio.metadata", "\r\n\r\n", j>>)

\* A binary frame whose header is 256 bytes long (L = 0x0100), payload 9.
LongHeaderFrame == Binary(<<1, 0>> \o [i \in 1..256 |-> 0] \o <<9>>)

\* config.audio_format: two of the formats stand for all.
AudioFormats == {"audio-24khz-48kbitrate-mono-mp3", "webm-24khz-16bit-mono-opus"}

\* L = 1: one header byte (5), payload <<8, 9>>.
AudioA == Binary(<<0, 1, 5, 8, 9>>)
\* L = 0: no header bytes, payload <<7>>.
AudioB == Binary(<<0, 0, 7>>)
\* L = 3 in a frame of 3 bytes: shorter than L + 2.
AudioTruncated == Binary(<<0, 3, 5>>)
\* One byte: too short to hold the length prefix.
AudioShort == Binary(<<0>>)
UnexpectedText == Text(<<"Path:", "other", "\r\n\r\n", "{}">>)

\* The frames the server may deliver to a one-shot client.
SessionFrames ==
    {TurnStartFrame, ResponseFrame, TurnEndFrame, Close, Ping, UnexpectedText,
     MetadataFrame("json:M1"), MetadataFrame("json:M2"),
     AudioA, AudioB, AudioTruncated, AudioShort}

\* ------------------------------------------------------------------- state

VARIABLES
    variant,        \* "sync" | "async": which client (or stream pair) runs
    pc,             \* the caller's position in synthesize
    calls,          \* synthesize (or Sender send) calls started
    conn,           \* "open" | "closed" (close handshake) | "ended" (dropped)
    fused,          \* the async stream has ended: next() yields None from now on
    sent,           \* the messages written to the connection, in order
    audio_format,   \* config.audio_format of the current call
    turn_start,     \* synthesize's local / Reader's field
    response,
    turn_end,
    audio_bytes,    \* synthesize's Vec<(Vec<u8>, usize)>
    audio_metadata, \* synthesize's Vec<AudioMetadata>
    recvd,          \* history: the frames read by the current call, in order
    last_read,      \* history: the outcome of the latest read of the transport
    result,         \* what synthesize returned
    can_read,       \* the gate: the bool behind can_read_cvar / can_read
    gate_lock,      \* who holds the gate's mutex: "none" | "sender" | "reader"
    ws_lock,        \* who holds the websocket's mutex (blocking pair only)
    poisoned,       \* a thread panicked holding the two std mutexes
    spc,            \* the Sender's position in send
    rpc,            \* the Reader's position in read
    net,            \* frames the server has sent and the Reader has not read
    replied,        \* history: turns the server has finished sending
    resets,         \* history: times the Reader flipped the gate back
    send_result,    \* what the latest send returned
    read_result,    \* what the latest read returned
    proxy,          \* the proxy Uri handed to websocket_connect_proxy
    username,       \* Option<&str>: the proxy user name
    password,       \* Option<&str>: the proxy password
    ppc,            \* the negotiation's position
    ppeer,          \* the proxy's end of the socket: "open" or "closed"
    presponse,      \* bytes the HTTP proxy answers a CONNECT with
    pwritten,       \* history: the writes made to the proxy, in order
    pbuf,           \* the bytes read from the proxy into buf
    presult,        \* what the negotiation returned
    signal,         \* the example's AtomicBool: the producer has finished
    cpos,           \* the example's consumer loop: its position
    srv,            \* frames a well-behaved server has sent of its turn
    req             \* the text and the SpeechConfig a caller passes, and what was built of them

clientVars == <<pc, audio_format, audio_bytes, audio_metadata, recvd, result>>

streamVars == <<can_read, gate_lock, ws_lock, poisoned, spc, rpc, net, replied,
                resets, send_result, read_result>>

proxyVars == <<proxy, username, password, ppc, ppeer, presponse, pwritten,
               pbuf, presult>>

usageVars == <<signal, cpos, srv>>
msgVars == <<req>>

vars == <<variant, calls, conn, fused, sent, turn_start, response, turn_end,
          last_read, clientVars, streamVars, proxyVars, usageVars, msgVars>>

\* The example program is not running.
UsageIdle ==
    /\ signal = FALSE
    /\ cpos = "load"
    /\ srv = 0

\* No message is being built.
NoRequest ==
    [text |-> <<>>,
     config |-> [voice_name |-> "", audio_format |-> "", pitch |-> 0, rate |-> 0,
                 volume |-> 0],
     built |-> <<>>]

MsgIdle == req = NoRequest

\* Option<&str>::None for the two credentials.
NoCred == [some |-> FALSE, s |-> <<>>]
SomeCred(s) == [some |-> TRUE, s |-> s]

PNoResult == [tag |-> "None", stream |-> "", err |-> "", arg |-> <<>>]
POk(stream) == [tag |-> "Ok", stream |-> stream, err |-> "", arg |-> <<>>]
PErr(e, arg) == [tag |-> "Err", stream |-> "", err |-> e, arg |-> arg]
PPanic(e) == [tag |-> "Panic", stream |-> "", err |-> e, arg |-> <<>>]

\* No proxy is in use: connect() / connect_async().
ProxyIdle ==
    /\ proxy = [scheme |-> NoneStr, host |-> NoneStr, port |-> 0]
    /\ username = NoCred
    /\ password = NoCred
    /\ ppc = "idle"
    /\ ppeer = "open"
    /\ presponse = <<>>
    /\ pwritten = <<>>
    /\ pbuf = <<>>
    /\ presult = PNoResult

\* The stream pair's variables while a one-shot client runs.
StreamIdle ==
    /\ can_read = FALSE
    /\ gate_lock = "none"
    /\ ws_lock = "none"
    /\ poisoned = FALSE
    /\ spc = "idle"
    /\ rpc = "idle"
    /\ net = <<>>
    /\ replied = 0
    /\ resets = 0
    /\ send_result = "-"
    /\ read_result = OkNone

NoResult == [tag |-> "None", audio_format |-> "", audio_bytes |-> <<>>,
             audio_metadata |-> <<>>, err |-> "", raw |-> <<>>]
OkResult(f, b, m) == [tag |-> "Ok", audio_format |-> f, audio_bytes |-> b,
                      audio_metadata |-> m, err |-> "", raw |-> <<>>]
ErrResult(e) == [tag |-> "Err", audio_format |-> "", audio_bytes |-> <<>>,
                 audio_metadata |-> <<>>, err |-> e, raw |-> <<>>]
\* process_message(..)?: the error value is returned as it is.
ErrResultOf(res) == [tag |-> "Err", audio_format |-> "", audio_bytes |-> <<>>,
                     audio_metadata |-> <<>>, err |-> res.err, raw |-> res.raw]

\* ------------------------------------------------------ one-shot clients

\* connect() / connect_async(): a client on an open connection.
Init ==
    /\ variant \in {"sync", "async"}
    /\ pc = "idle"
    /\ calls = 0
    /\ conn = "open"
    /\ fused = FALSE
    /\ sent = <<>>
    /\ audio_format = ""
    /\ turn_start = FALSE
    /\ response = FALSE
    /\ turn_end = FALSE
    /\ audio_bytes = <<>>
    /\ audio_metadata = <<>>
    /\ recvd = <<>>
    /\ last_read = "-"
    /\ ProxyIdle
    /\ UsageIdle
    /\ MsgIdle
    /\ result = NoResult
    /\ StreamIdle

\* The caller calls synthesize(text, config); an earlier call has returned and
\* its locals are gone.
Call ==
    /\ pc \in {"idle", "done", "error"}
    /\ calls < MaxCalls
    /\ calls' = calls + 1
    /\ \E f \in AudioFormats : audio_format' = f
    /\ pc' = "send_config"
    /\ result' = NoResult
    /\ recvd' = <<>>
    /\ last_read' = "-"
    /\ turn_start' = FALSE
    /\ response' = FALSE
    /\ turn_end' = FALSE
    /\ audio_bytes' = <<>>
    /\ audio_metadata' = <<>>
    /\ UNCHANGED <<proxyVars, usageVars, msgVars, variant, conn, fused, sent>>
    /\ UNCHANGED streamVars

\* Whether a write on the connection succeeds: always on an open one, never
\* after the close handshake; on a dropped connection the write may still be
\* taken by the socket's buffer.
WriteOutcomes == IF conn = "open" THEN {TRUE}
                 ELSE IF conn = "closed" THEN {FALSE}
                 ELSE {TRUE, FALSE}

\* A faulty variant: a failed write of the configuration message is ignored.
SendConfig_ignores_error ==
    /\ pc = "send_config"
    /\ \E ok \in WriteOutcomes :
        IF ok
        THEN /\ sent' = Append(sent, "speech.config")
             /\ pc' = "send_ssml"
             /\ result' = result
        ELSE /\ sent' = sent
             /\ pc' = "send_ssml"
             /\ result' = result
    /\ UNCHANGED <<proxyVars, usageVars, msgVars, variant, calls, conn, fused, audio_format, turn_start, response,
                   turn_end, audio_bytes, audio_metadata, recvd, last_read>>
    /\ UNCHANGED streamVars

\* self.0.send(config_message)?
SendConfig ==
    /\ pc = "send_config"
    /\ \E ok \in WriteOutcomes :
        IF ok
        THEN /\ sent' = Append(sent, "speech.config")
             /\ pc' = "send_ssml"
             /\ result' = result
        ELSE /\ sent' = sent
             /\ pc' = "error"
             /\ result' = ErrResult("Transport")
    /\ UNCHANGED <<proxyVars, usageVars, msgVars, variant, calls, conn, fused, audio_format, turn_start, response,
                   turn_end, audio_bytes, audio_metadata, recvd, last_read>>
    /\ UNCHANGED streamVars

\* self.0.send(ssml_message)?, then the locals of the receive loop.
SendSsml ==
    /\ pc = "send_ssml"
    /\ \E ok \in WriteOutcomes :
        IF ok
        THEN /\ sent' = Append(sent, "ssml")
             /\ pc' = "loop"
             /\ result' = result
             /\ audio_bytes' = <<>>
             /\ audio_metadata' = <<>>
             /\ turn_start' = FALSE
             /\ response' = FALSE
             /\ turn_end' = FALSE
        ELSE /\ sent' = sent
             /\ pc' = "error"
             /\ result' = ErrResult("Transport")
             /\ UNCHANGED <<audio_bytes, audio_metadata, turn_start, response, turn_end>>
    /\ UNCHANGED <<proxyVars, usageVars, msgVars, variant, calls, conn, fused, audio_format, recvd, last_read>>
    /\ UNCHANGED streamVars

\* The connection is dropped (by the peer, the network or the caller's side)
\* without a close frame.
ConnDrop ==
    /\ conn = "open"
    /\ pc \in {"send_config", "send_ssml", "loop"}
    /\ conn' = "ended"
    /\ UNCHANGED <<proxyVars, usageVars, msgVars, variant, pc, calls, fused, sent, audio_format, turn_start,
                   response, turn_end, audio_bytes, audio_metadata, recvd,
                   last_read, result>>
    /\ UNCHANGED streamVars

\* The loop goes on: `if turn_end { break; }` at its head.
LoopContinues(te) == ~te

\* The frames the model still delivers to this call: MaxFrames of them, and
\* after those only a frame that ends the turn.
Deliverable ==
    IF Len(recvd) < MaxFrames THEN SessionFrames ELSE {TurnEndFrame, Close}

\* One pass of the loop body on a frame the transport delivered:
\* process_message(message, ...)? and the match on its result.
RecvFrame ==
    /\ pc = "loop"
    /\ LoopContinues(turn_end)
    /\ conn = "open"
    /\ ~fused
    /\ \E f \in Deliverable :
        LET pm == process_message(f, turn_start, response, turn_end)
        IN  /\ recvd' = Append(recvd, f)
            /\ last_read' = "frame"
            /\ conn' = IF f.kind = "Close" THEN "closed" ELSE conn
            /\ turn_start' = pm.turn_start
            /\ response' = pm.response
            /\ turn_end' = pm.turn_end
            /\ audio_bytes' = IF pm.res.tag = "OkAudioBytes"
                              THEN Append(audio_bytes, <<pm.res.bytes, pm.res.index>>)
                              ELSE audio_bytes
            /\ audio_metadata' = IF pm.res.tag = "OkAudioMetadata"
                                 THEN audio_metadata \o pm.res.metadata
                                 ELSE audio_metadata
            /\ pc' = CASE pm.res.tag = "Panic" -> "panicked"
                       [] pm.res.tag = "Err" -> "error"
                       [] OTHER -> "loop"
            /\ result' = IF pm.res.tag = "Err" THEN ErrResultOf(pm.res) ELSE result
    /\ UNCHANGED <<proxyVars, usageVars, msgVars, variant, calls, fused, sent, audio_format>>
    /\ UNCHANGED streamVars

\* Sync client: self.0.read()? on a connection that delivers nothing more
\* returns the transport's error.
RecvErrSync ==
    /\ variant = "sync"
    /\ pc = "loop"
    /\ LoopContinues(turn_end)
    /\ conn # "open"
    /\ last_read' = "err"
    /\ pc' = "error"
    /\ result' = ErrResult("Transport")
    /\ UNCHANGED <<proxyVars, usageVars, msgVars, variant, calls, conn, fused, sent, audio_format, turn_start,
                   response, turn_end, audio_bytes, audio_metadata, recvd>>
    /\ UNCHANGED streamVars

\* Async client: self.0.next().await yields Some(Err(..)) once for a dropped
\* connection, which `message?` returns.
RecvErrAsync ==
    /\ variant = "async"
    /\ pc = "loop"
    /\ LoopContinues(turn_end)
    /\ conn = "ended"
    /\ ~fused
    /\ fused' = TRUE
    /\ last_read' = "err"
    /\ pc' = "error"
    /\ result' = ErrResult("Transport")
    /\ UNCHANGED <<proxyVars, usageVars, msgVars, variant, calls, conn, sent, audio_format, turn_start,
                   response, turn_end, audio_bytes, audio_metadata, recvd>>
    /\ UNCHANGED streamVars

\* Async client: self.0.next().await yields None (the stream has ended: after
\* the close handshake, or after an error it already yielded); the
\* `if let Some(message)` has no else branch, so the loop goes round.
RecvNoneAsync ==
    /\ variant = "async"
    /\ pc = "loop"
    /\ LoopContinues(turn_end)
    /\ fused \/ conn = "closed"
    /\ fused' = TRUE
    /\ last_read' = "none"
    /\ UNCHANGED <<proxyVars, usageVars, msgVars, variant, pc, calls, conn, sent, audio_format, turn_start,
                   response, turn_end, audio_bytes, audio_metadata, recvd, result>>
    /\ UNCHANGED streamVars

\* The loop is left on turn_end; the payload slices are collected and the
\* result returned.
Finish ==
    /\ pc = "loop"
    /\ ~LoopContinues(turn_end)
    /\ LET collected == CollectPayload(audio_bytes)
       IN  IF collected.tag = "Panic"
           THEN /\ pc' = "panicked"
                /\ result' = result
           ELSE /\ pc' = "done"
                /\ result' = OkResult(audio_format, collected.bytes, audio_metadata)
    /\ UNCHANGED <<proxyVars, usageVars, msgVars, variant, calls, conn, fused, sent, audio_format, turn_start,
                   response, turn_end, audio_bytes, audio_metadata, recvd, last_read>>
    /\ UNCHANGED streamVars

Next ==
    \/ Call
    \/ SendConfig
    \/ SendSsml
    \/ ConnDrop
    \/ RecvFrame
    \/ RecvErrSync
    \/ RecvErrAsync
    \/ RecvNoneAsync
    \/ Finish

Spec == Init /\ [][Next]_vars

\* The caller's thread runs: every step of synthesize that can be taken is
\* taken eventually.
FairSpec ==
    /\ Spec
    /\ WF_vars(SendConfig)
    /\ WF_vars(SendSsml)
    /\ WF_vars(RecvFrame)
    /\ WF_vars(RecvErrSync)
    /\ WF_vars(RecvErrAsync)
    /\ WF_vars(RecvNoneAsync)
    /\ WF_vars(Finish)

\* ----------------------------------------------- the codec on single frames
\* process_message and the two payload extractions on one frame, for every
\* TurnState: the frame is recvd[1], drawn in the initial state.

\* The longest binary frame enumerated byte by byte.
MaxBinLen == 4

ByteVals == {0, 1, 2, 255}

\* L = 0x00FF: 255 header bytes, payload <<1, 2>>.
Header255Frame == Binary(<<0, 255>> \o [i \in 1..255 |-> 0] \o <<1, 2>>)

BinaryInputs ==
    {Binary(b) : b \in UNION {[1..n -> ByteVals] : n \in 0..MaxBinLen}}
        \cup {LongHeaderFrame, Header255Frame}

TextInputs ==
    {TurnStartFrame, ResponseFrame, TurnEndFrame, UnexpectedText,
     MetadataFrame("json:M1"), MetadataFrame("json:M2"), MetadataFrame("json:Odd"),
     MetadataFrame("json:Empty"), MetadataFrame("json:NoArray"),
     MetadataFrame("not json"), MetadataFrame("json:NoKey"),
     MetadataFrame("json:Scalar"),
     Text(<<"Path:", "audio.metadata", "\r\n\r\n", "json:M1", "json:M1">>),
     Text(<<"Path:", "audio.metadata", "turn.end">>),
     Text(<<"X-RequestId:", "turn.start", "Path:", "audio.metadata", "\r\n\r\n",
            "json:M2">>),
     Text(<<"Path:", "audio.metadata">>),
     Text(<<"Path:", "response", "\r\n\r\n", "turn.end">>),
     Text(<<"Path:", "turn.start", "\r\n\r\n", "response">>),
     Text(<<"Path:", "turn.end", "\r\n\r\n", "audio.metadata">>),
     Text(<<>>)}

FrameInputs == BinaryInputs \cup TextInputs \cup {Close, Ping}

FrameInit ==
    /\ variant \in {"sync", "async"}
    /\ pc = "classify"
    /\ calls = 0
    /\ conn = "open"
    /\ fused = FALSE
    /\ sent = <<>>
    /\ audio_format = ""
    /\ turn_start \in BOOLEAN
    /\ response \in BOOLEAN
    /\ turn_end \in BOOLEAN
    /\ audio_bytes = <<>>
    /\ audio_metadata = <<>>
    /\ \E f \in FrameInputs : recvd = <<f>>
    /\ last_read = "-"
    /\ ProxyIdle
    /\ UsageIdle
    /\ MsgIdle
    /\ result = NoResult
    /\ StreamIdle

\* process_message on the frame; an AudioBytes message is kept as the chunk
\* (bytes, index), a metadata message as its events.
Classify ==
    /\ pc = "classify"
    /\ LET pm == process_message(recvd[1], turn_start, response, turn_end)
       IN  /\ turn_start' = pm.turn_start
           /\ response' = pm.response
           /\ turn_end' = pm.turn_end
           /\ audio_bytes' = IF pm.res.tag = "OkAudioBytes"
                             THEN <<(<<pm.res.bytes, pm.res.index>>)>>
                             ELSE <<>>
           /\ audio_metadata' = pm.res.metadata
           /\ result' = IF pm.res.tag = "Err" THEN ErrResultOf(pm.res) ELSE result
           /\ pc' = CASE pm.res.tag = "Panic" -> "panicked"
                      [] pm.res.tag = "Err" -> "error"
                      [] pm.res.tag = "OkNone" -> "none"
                      [] pm.res.tag = "OkAudioMetadata" -> "metadata"
                      [] OTHER -> "chunk"
    /\ UNCHANGED <<proxyVars, usageVars, msgVars, variant, calls, conn, fused, sent, audio_format, recvd, last_read>>
    /\ UNCHANGED streamVars

\* The chunk's payload as synthesize collects it after the loop.
ExtractClient ==
    /\ pc = "chunk"
    /\ LET collected == CollectPayload(audio_bytes)
       IN  IF collected.tag = "Panic"
           THEN /\ pc' = "panicked"
                /\ result' = result
           ELSE /\ pc' = "client_out"
                /\ result' = OkResult(audio_format, collected.bytes, audio_metadata)
    /\ UNCHANGED <<proxyVars, usageVars, msgVars, variant, calls, conn, fused, sent, audio_format, turn_start,
                   response, turn_end, audio_bytes, audio_metadata, recvd, last_read>>
    /\ UNCHANGED streamVars

\* The chunk's payload as Reader::read / ReaderAsync::read return it:
\* message.map(|message| message.into()).
ExtractStream ==
    /\ pc = "chunk"
    /\ LET converted == SynthesizedResponseFrom(
                            OkAudioBytes(audio_bytes[1][1], audio_bytes[1][2]))
       IN  IF converted.tag = "Panic"
           THEN /\ pc' = "panicked"
                /\ result' = result
           ELSE /\ pc' = "stream_out"
                /\ result' = OkResult(audio_format, converted.bytes, audio_metadata)
    /\ UNCHANGED <<proxyVars, usageVars, msgVars, variant, calls, conn, fused, sent, audio_format, turn_start,
                   response, turn_end, audio_bytes, audio_metadata, recvd, last_read>>
    /\ UNCHANGED streamVars

FrameNext ==
    \/ Classify
    \/ ExtractClient
    \/ ExtractStream

FrameSpec == FrameInit /\ [][FrameNext]_vars

\* ------------------------------------------------- properties: the clients

\* The frame at position i of the call's history is a turn.start or response
\* marker.
IsMarker(f) == f \in {TurnStartFrame, ResponseFrame}

\* A turn.start or response frame was read before position i.
MarkerBefore(i) == \E j \in 1..(i - 1) : IsMarker(recvd[j])

\* The binary frames of the history that arrived after a marker.
IsKept(i) == recvd[i].kind = "Binary" /\ MarkerBefore(i)

\* The big-endian u16 in the first two bytes of a binary frame.
PrefixL(b) == b[1] * 256 + b[2]

\* A binary frame shorter than L + 2 bytes (or too short to hold L).
IsTruncated(b) == Len(b) < 2 \/ Len(b) < PrefixL(b) + 2

\* The bytes of a binary frame from offset L + 2 to its end.
PayloadOf(b) == [k \in 1..(Len(b) - (PrefixL(b) + 2)) |-> b[PrefixL(b) + 2 + k]]

\* The payloads of the kept binary frames, in arrival order.
ExpectedAudio ==
    Flatten([i \in 1..Len(recvd) |->
                IF IsKept(i) THEN PayloadOf(recvd[i].bytes) ELSE <<>>])

\* The event lists classification emits for the frames, in arrival order.
ExpectedMetadata ==
    Flatten([i \in 1..Len(recvd) |->
                process_message(recvd[i], FALSE, FALSE, FALSE).res.metadata])

\* Every kept binary frame of the history holds its whole header.
KeptFramesWhole ==
    \A i \in 1..Len(recvd) : IsKept(i) => ~IsTruncated(recvd[i].bytes)

EndsTurn(f) == f \in {TurnEndFrame, Close}

\* C6 (as claimed): synthesize returns a result exactly when turn_end has been
\* set; turn_end is set only by a turn.end text frame or a close frame, no
\* frame is read after it, and the call then returns a successful result.
C6_ReturnsExactlyOnTurnEnd ==
    /\ pc = "done" => turn_end /\ result.tag = "Ok"
    /\ turn_end =>
        /\ recvd # <<>>
        /\ EndsTurn(recvd[Len(recvd)])
        /\ \A i \in 1..(Len(recvd) - 1) : ~EndsTurn(recvd[i])
        /\ pc \in {"loop", "done"}
    /\ pc = "loop" /\ ~turn_end => result = NoResult

\* C7 (as claimed): once the connection has been dropped while synthesize is
\* in its receive loop with the turn not ended, the call returns a transport
\* error.
C7_DroppedConnectionReturnsError ==
    (pc = "loop" /\ ~turn_end /\ conn = "ended")
        ~> (pc = "error" /\ result = ErrResult("Transport"))

\* C8 (as claimed): a truncated binary frame read while turn_start or response
\* is set makes the call fail with the TruncatedFrame protocol error; the call
\* does not crash and does not keep the frame.
C8_TruncatedFrameIsError ==
    (\E i \in 1..Len(recvd) : IsKept(i) /\ IsTruncated(recvd[i].bytes))
        => /\ pc = "error"
           /\ result = ErrResult("TruncatedFrame")

\* C10: binary frames read while neither turn_start nor response is set are
\* dropped (nothing kept, no error or crash from the frame, TurnState
\* unchanged: the call goes on unless the transport itself fails), so the
\* chunks synthesize has kept are exactly the binary frames that arrived
\* after a turn.start or response frame of this call, in order.
C10_BinaryBeforeMarkerDropped ==
    /\ (recvd # <<>> /\ \A i \in 1..Len(recvd) : recvd[i].kind = "Binary")
        => /\ pc = "loop" \/ (pc = "error" /\ last_read = "err")
           /\ audio_bytes = <<>>
           /\ ~turn_start /\ ~response /\ ~turn_end
           /\ result \in {NoResult, ErrResult("Transport")}
    /\ pc \in {"loop", "done"} =>
        /\ Len(audio_bytes) = Cardinality({i \in 1..Len(recvd) : IsKept(i)})
        /\ \A k \in 1..Len(audio_bytes) :
              \E i \in 1..Len(recvd) :
                  /\ IsKept(i)
                  /\ audio_bytes[k][1] = recvd[i].bytes
                  /\ Cardinality({j \in 1..i : IsKept(j)}) = k
    /\ pc = "done" => result.audio_bytes = ExpectedAudio

\* C10 witness: a call that read an audio frame before the first marker and
\* one after it returned only the second frame's payload.
C10_Witness ==
    /\ pc = "done"
    /\ recvd = <<AudioA, TurnStartFrame, AudioB, TurnEndFrame>>
    /\ result.audio_bytes = <<7>>

\* ---------------------------------------- properties: the codec on a frame

\* C9: a binary frame of at least L + 2 bytes, classified while turn_start or
\* response is set, is neither dropped nor refused, and the payload both
\* synthesize's collection and Reader::read's conversion deliver is exactly
\* the frame's bytes from index L + 2 to its end.
C9_PayloadStartsAfterHeader ==
    LET b == recvd[1].bytes
    IN  (recvd[1].kind = "Binary" /\ (turn_start \/ response) /\ ~IsTruncated(b))
            => /\ pc \in {"classify", "chunk", "client_out", "stream_out"}
               /\ pc = "chunk" => audio_bytes = <<(<<b, PrefixL(b) + 2>>)>>
               /\ pc \in {"client_out", "stream_out"} =>
                    /\ result.tag = "Ok"
                    /\ result.audio_bytes = PayloadOf(b)

\* C9 witness: the frame with a 256-byte header (L = 0x0100), classified
\* after a response marker, has delivered its one payload byte through
\* Reader::read's conversion.
C9_Witness ==
    /\ pc = "stream_out"
    /\ recvd[1] = LongHeaderFrame
    /\ result.audio_bytes = <<9>>
    /\ ~turn_start /\ response

\* ------------------------------------------------- the stream pair: shared

\* Sender send calls made on one pair.
MaxSends == 2

\* Frames in flight from the server to the Reader.
MaxNet == 1

\* The frames the server may send on a stream connection.
StreamFrames ==
    {TurnStartFrame, ResponseFrame, TurnEndFrame, Close, UnexpectedText,
     AudioA, AudioShort}

\* The one-shot client's variables while a stream pair runs.
ClientIdle ==
    /\ pc = "idle"
    /\ audio_format = ""
    /\ audio_bytes = <<>>
    /\ audio_metadata = <<>>
    /\ recvd = <<>>
    /\ result = NoResult

\* _msedge_tts_split / _msedge_tts_split_async: the gate starts false, the
\* Reader's three flags start false.
StreamInit ==
    /\ variant \in {"sync", "async"}
    /\ calls = 0
    /\ conn = "open"
    /\ fused = FALSE
    /\ sent = <<>>
    /\ turn_start = FALSE
    /\ response = FALSE
    /\ turn_end = FALSE
    /\ last_read = "-"
    /\ ProxyIdle
    /\ UsageIdle
    /\ MsgIdle
    /\ ClientIdle
    /\ StreamIdle

\* The requests written in full: one ssml message each.
NumRequests == Cardinality({i \in 1..Len(sent) : sent[i] = "ssml"})

\* The server sends one more frame of its answer to a request it has
\* received in full; a turn.end or close frame ends that answer.
ServerSend ==
    /\ conn = "open"
    /\ replied < NumRequests
    /\ Len(net) < MaxNet
    /\ \E f \in StreamFrames :
        /\ net' = Append(net, f)
        /\ replied' = IF EndsTurn(f) THEN replied + 1 ELSE replied
    /\ UNCHANGED <<proxyVars, usageVars, msgVars, variant, calls, conn, fused, sent, turn_start, response,
                   turn_end, last_read, clientVars, can_read, gate_lock, ws_lock,
                   poisoned, spc, rpc, resets, send_result, read_result>>

\* The connection is dropped without a close frame.
StreamConnDrop ==
    /\ conn = "open"
    /\ calls > 0
    /\ conn' = "ended"
    /\ UNCHANGED <<proxyVars, usageVars, msgVars, variant, calls, fused, sent, turn_start, response, turn_end,
                   last_read, clientVars, streamVars>>

\* A faulty variant: the turn counts as complete on turn.end alone.
TurnComplete_on_turn_end(ts, rs, te) == te

\* `if self.turn_start && self.response && self.turn_end`
TurnComplete(ts, rs, te) == ts /\ rs /\ te

\* --------------------------------------------------------- Sender (blocking)

\* Faulty variant of SendMustWait: send never waits for the gate.
SendNeverWaits(gate) == FALSE

\* `while *can_read`: send waits on the condition variable.
SendMustWait(gate) == gate

\* The caller calls sender.send(text, config).
S_Call ==
    /\ variant = "sync"
    /\ spc = "idle"
    /\ calls < MaxSends
    /\ calls' = calls + 1
    /\ spc' = "lock_gate"
    /\ send_result' = "-"
    /\ UNCHANGED <<proxyVars, usageVars, msgVars, variant, conn, fused, sent, turn_start, response, turn_end,
                   last_read, clientVars, can_read, gate_lock, ws_lock, poisoned,
                   rpc, net, replied, resets, read_result>>

\* can_read.lock().unwrap(), on entry and on waking from cvar.wait: the
\* unwrap panics on a poisoned mutex.
S_LockGate ==
    /\ variant = "sync"
    /\ spc \in {"lock_gate", "woken"}
    /\ gate_lock = "none"
    /\ IF poisoned
       THEN /\ spc' = "panicked"
            /\ gate_lock' = gate_lock
       ELSE /\ spc' = "check"
            /\ gate_lock' = "sender"
    /\ UNCHANGED <<proxyVars, usageVars, msgVars, variant, calls, conn, fused, sent, turn_start, response,
                   turn_end, last_read, clientVars, can_read, ws_lock, poisoned,
                   rpc, net, replied, resets, send_result, read_result>>

\* The head of `while *can_read { can_read = cvar.wait(can_read).unwrap(); }`:
\* wait releases the gate's mutex.
S_Check ==
    /\ variant = "sync"
    /\ spc = "check"
    /\ IF SendMustWait(can_read)
       THEN /\ spc' = "waiting"
            /\ gate_lock' = "none"
       ELSE /\ spc' = "lock_ws"
            /\ gate_lock' = gate_lock
    /\ UNCHANGED <<proxyVars, usageVars, msgVars, variant, calls, conn, fused, sent, turn_start, response,
                   turn_end, last_read, clientVars, can_read, ws_lock, poisoned,
                   rpc, net, replied, resets, send_result, read_result>>

\* A spurious wake-up of the waiting Sender (std::sync::Condvar allows it).
S_SpuriousWake ==
    /\ variant = "sync"
    /\ spc = "waiting"
    /\ spc' = "woken"
    /\ UNCHANGED <<proxyVars, usageVars, msgVars, variant, calls, conn, fused, sent, turn_start, response,
                   turn_end, last_read, clientVars, can_read, gate_lock, ws_lock,
                   poisoned, rpc, net, replied, resets, send_result, read_result>>

\* self.websocket.lock().unwrap()
S_LockWs ==
    /\ variant = "sync"
    /\ spc = "lock_ws"
    /\ ws_lock = "none"
    /\ IF poisoned
       THEN /\ spc' = "panicked"
            /\ ws_lock' = ws_lock
            /\ gate_lock' = "none"
       ELSE /\ spc' = "send_config"
            /\ ws_lock' = "sender"
            /\ gate_lock' = gate_lock
    /\ UNCHANGED <<proxyVars, usageVars, msgVars, variant, calls, conn, fused, sent, turn_start, response,
                   turn_end, last_read, clientVars, can_read, poisoned, rpc, net,
                   replied, resets, send_result, read_result>>

\* websocket.send(config_message)?: an error returns, dropping both guards.
S_SendConfig ==
    /\ variant = "sync"
    /\ spc = "send_config"
    /\ \E ok \in WriteOutcomes :
        IF ok
        THEN /\ sent' = Append(sent, "speech.config")
             /\ spc' = "send_ssml"
             /\ UNCHANGED <<gate_lock, ws_lock, send_result>>
        ELSE /\ sent' = sent
             /\ spc' = "idle"
             /\ gate_lock' = "none"
             /\ ws_lock' = "none"
             /\ send_result' = "Err"
    /\ UNCHANGED <<proxyVars, usageVars, msgVars, variant, calls, conn, fused, turn_start, response, turn_end,
                   last_read, clientVars, can_read, poisoned, rpc, net, replied,
                   resets, read_result>>

\* A faulty variant of S_SendSsml: the gate is set and the Reader notified
\* although the write failed.
S_SendSsml_sets_gate_on_error ==
    /\ variant = "sync"
    /\ spc = "send_ssml"
    /\ \E ok \in WriteOutcomes :
        IF ok
        THEN /\ sent' = Append(sent, "ssml")
             /\ spc' = "set_gate"
             /\ UNCHANGED <<gate_lock, ws_lock, send_result, can_read, rpc>>
        ELSE /\ sent' = sent
             /\ spc' = "idle"
             /\ gate_lock' = "none"
             /\ ws_lock' = "none"
             /\ send_result' = "Err"
             /\ can_read' = TRUE
             /\ rpc' = IF rpc = "waiting" THEN "woken" ELSE rpc
    /\ UNCHANGED <<proxyVars, usageVars, msgVars, variant, calls, conn, fused, turn_start, response, turn_end,
                   last_read, clientVars, poisoned, net, replied,
                   resets, read_result>>

\* websocket.send(ssml_message)?
S_SendSsml ==
    /\ variant = "sync"
    /\ spc = "send_ssml"
    /\ \E ok \in WriteOutcomes :
        IF ok
        THEN /\ sent' = Append(sent, "ssml")
             /\ spc' = "set_gate"
             /\ UNCHANGED <<gate_lock, ws_lock, send_result>>
        ELSE /\ sent' = sent
             /\ spc' = "idle"
             /\ gate_lock' = "none"
             /\ ws_lock' = "none"
             /\ send_result' = "Err"
    /\ UNCHANGED <<proxyVars, usageVars, msgVars, variant, calls, conn, fused, turn_start, response, turn_end,
                   last_read, clientVars, can_read, poisoned, rpc, net, replied,
                   resets, read_result>>

\* *can_read = true; cvar.notify_one(); Ok(()): a waiting Reader is woken,
\* both guards are dropped on return.
S_SetGate ==
    /\ variant = "sync"
    /\ spc = "set_gate"
    /\ can_read' = TRUE
    /\ rpc' = IF rpc = "waiting" THEN "woken" ELSE rpc
    /\ gate_lock' = "none"
    /\ ws_lock' = "none"
    /\ spc' = "idle"
    /\ send_result' = "Ok"
    /\ UNCHANGED <<proxyVars, usageVars, msgVars, variant, calls, conn, fused, sent, turn_start, response,
                   turn_end, last_read, clientVars, poisoned, net, replied,
                   resets, read_result>>

\* --------------------------------------------------------- Reader (blocking)

\* Faulty variant of ReadMustWait: read never waits for the gate.
ReadNeverWaits(gate) == FALSE

\* `while !*can_read`: read waits on the condition variable.
ReadMustWait(gate) == ~gate

\* The caller calls reader.read().
R_Call ==
    /\ variant = "sync"
    /\ rpc = "idle"
    /\ rpc' = "lock_gate"
    /\ read_result' = OkNone
    /\ UNCHANGED <<proxyVars, usageVars, msgVars, variant, calls, conn, fused, sent, turn_start, response,
                   turn_end, last_read, clientVars, can_read, gate_lock, ws_lock,
                   poisoned, spc, net, replied, resets, send_result>>

\* can_read.lock().unwrap(), on entry and on waking from cvar.wait.
R_LockGate ==
    /\ variant = "sync"
    /\ rpc \in {"lock_gate", "woken"}
    /\ gate_lock = "none"
    /\ IF poisoned
       THEN /\ rpc' = "panicked"
            /\ gate_lock' = gate_lock
       ELSE /\ rpc' = "check"
            /\ gate_lock' = "reader"
    /\ UNCHANGED <<proxyVars, usageVars, msgVars, variant, calls, conn, fused, sent, turn_start, response,
                   turn_end, last_read, clientVars, can_read, ws_lock, poisoned,
                   spc, net, replied, resets, send_result, read_result>>

\* The head of `while !*can_read { can_read = cvar.wait(can_read).unwrap(); }`.
R_Check ==
    /\ variant = "sync"
    /\ rpc = "check"
    /\ IF ReadMustWait(can_read)
       THEN /\ rpc' = "waiting"
            /\ gate_lock' = "none"
       ELSE /\ rpc' = "lock_ws"
            /\ gate_lock' = gate_lock
    /\ UNCHANGED <<proxyVars, usageVars, msgVars, variant, calls, conn, fused, sent, turn_start, response,
                   turn_end, last_read, clientVars, can_read, ws_lock, poisoned,
                   spc, net, replied, resets, send_result, read_result>>

\* A spurious wake-up of the waiting Reader.
R_SpuriousWake ==
    /\ variant = "sync"
    /\ rpc = "waiting"
    /\ rpc' = "woken"
    /\ UNCHANGED <<proxyVars, usageVars, msgVars, variant, calls, conn, fused, sent, turn_start, response,
                   turn_end, last_read, clientVars, can_read, gate_lock, ws_lock,
                   poisoned, spc, net, replied, resets, send_result, read_result>>

\* self.websocket.lock().unwrap()
R_LockWs ==
    /\ variant = "sync"
    /\ rpc = "lock_ws"
    /\ ws_lock = "none"
    /\ IF poisoned
       THEN /\ rpc' = "panicked"
            /\ ws_lock' = ws_lock
            /\ gate_lock' = "none"
       ELSE /\ rpc' = "read"
            /\ ws_lock' = "reader"
            /\ gate_lock' = gate_lock
    /\ UNCHANGED <<proxyVars, usageVars, msgVars, variant, calls, conn, fused, sent, turn_start, response,
                   turn_end, last_read, clientVars, can_read, poisoned, spc, net,
                   replied, resets, send_result, read_result>>

\* A faulty variant: the completed turn flips the gate without cvar.notify_one().
R_ReadFrame_no_notify ==
    /\ variant = "sync"
    /\ rpc = "read"
    /\ net # <<>>
    /\ LET f == Head(net)
           pm == process_message(f, turn_start, response, turn_end)
           complete == TurnComplete(pm.turn_start, pm.response, pm.turn_end)
           out == SynthesizedResponseFrom(pm.res)
       IN  /\ net' = Tail(net)
           /\ last_read' = "frame"
           /\ conn' = IF f.kind = "Close" THEN "closed" ELSE conn
           /\ gate_lock' = "none"
           /\ ws_lock' = "none"
           /\ IF pm.res.tag \in {"Panic", "Err"}
              THEN /\ turn_start' = pm.turn_start
                   /\ response' = pm.response
                   /\ turn_end' = pm.turn_end
                   /\ UNCHANGED <<can_read, resets, spc>>
                   /\ poisoned' = (poisoned \/ pm.res.tag = "Panic")
                   /\ rpc' = IF pm.res.tag = "Panic" THEN "panicked" ELSE "idle"
                   /\ read_result' = pm.res
              ELSE /\ turn_start' = (pm.turn_start /\ ~complete)
                   /\ response' = (pm.response /\ ~complete)
                   /\ turn_end' = (pm.turn_end /\ ~complete)
                   /\ can_read' = (can_read /\ ~complete)
                   /\ resets' = IF complete THEN resets + 1 ELSE resets
                   /\ spc' = spc
                   /\ poisoned' = (poisoned \/ out.tag = "Panic")
                   /\ rpc' = IF out.tag = "Panic" THEN "panicked" ELSE "idle"
                   /\ read_result' = out
    /\ UNCHANGED <<proxyVars, usageVars, msgVars, variant, calls, fused, sent, clientVars, replied, send_result>>

\* A faulty variant: the completed turn flips the gate and keeps the flags.
R_ReadFrame_keeps_flags ==
    /\ variant = "sync"
    /\ rpc = "read"
    /\ net # <<>>
    /\ LET f == Head(net)
           pm == process_message(f, turn_start, response, turn_end)
           complete == TurnComplete(pm.turn_start, pm.response, pm.turn_end)
           out == SynthesizedResponseFrom(pm.res)
       IN  /\ net' = Tail(net)
           /\ last_read' = "frame"
           /\ conn' = IF f.kind = "Close" THEN "closed" ELSE conn
           /\ gate_lock' = "none"
           /\ ws_lock' = "none"
           /\ IF pm.res.tag \in {"Panic", "Err"}
              THEN /\ turn_start' = pm.turn_start
                   /\ response' = pm.response
                   /\ turn_end' = pm.turn_end
                   /\ UNCHANGED <<can_read, resets, spc>>
                   /\ poisoned' = (poisoned \/ pm.res.tag = "Panic")
                   /\ rpc' = IF pm.res.tag = "Panic" THEN "panicked" ELSE "idle"
                   /\ read_result' = pm.res
              ELSE /\ turn_start' = pm.turn_start
                   /\ response' = pm.response
                   /\ turn_end' = pm.turn_end
                   /\ can_read' = (can_read /\ ~complete)
                   /\ resets' = IF complete THEN resets + 1 ELSE resets
                   /\ spc' = IF complete /\ spc = "waiting" THEN "woken" ELSE spc
                   /\ poisoned' = (poisoned \/ out.tag = "Panic")
                   /\ rpc' = IF out.tag = "Panic" THEN "panicked" ELSE "idle"
                   /\ read_result' = out
    /\ UNCHANGED <<proxyVars, usageVars, msgVars, variant, calls, fused, sent, clientVars, replied, send_result>>

\* websocket.read()? delivered a frame: process_message(..)?, the test of the
\* three flags (reset, *can_read = false, notify_one) and message.into(), to
\* the return, which drops both guards.  A panic (in process_message or in
\* the conversion) unwinds with both guards held and poisons the mutexes.
R_ReadFrame ==
    /\ variant = "sync"
    /\ rpc = "read"
    /\ net # <<>>
    /\ LET f == Head(net)
           pm == process_message(f, turn_start, response, turn_end)
           complete == TurnComplete(pm.turn_start, pm.response, pm.turn_end)
           out == SynthesizedResponseFrom(pm.res)
       IN  /\ net' = Tail(net)
           /\ last_read' = "frame"
           /\ conn' = IF f.kind = "Close" THEN "closed" ELSE conn
           /\ gate_lock' = "none"
           /\ ws_lock' = "none"
           /\ IF pm.res.tag \in {"Panic", "Err"}
              THEN /\ turn_start' = pm.turn_start
                   /\ response' = pm.response
                   /\ turn_end' = pm.turn_end
                   /\ UNCHANGED <<can_read, resets, spc>>
                   /\ poisoned' = (poisoned \/ pm.res.tag = "Panic")
                   /\ rpc' = IF pm.res.tag = "Panic" THEN "panicked" ELSE "idle"
                   /\ read_result' = pm.res
              ELSE /\ turn_start' = (pm.turn_start /\ ~complete)
                   /\ response' = (pm.response /\ ~complete)
                   /\ turn_end' = (pm.turn_end /\ ~complete)
                   /\ can_read' = (can_read /\ ~complete)
                   /\ resets' = IF complete THEN resets + 1 ELSE resets
                   /\ spc' = IF complete /\ spc = "waiting" THEN "woken" ELSE spc
                   /\ poisoned' = (poisoned \/ out.tag = "Panic")
                   /\ rpc' = IF out.tag = "Panic" THEN "panicked" ELSE "idle"
                   /\ read_result' = out
    /\ UNCHANGED <<proxyVars, usageVars, msgVars, variant, calls, fused, sent, clientVars, replied, send_result>>

\* A faulty variant of R_ReadErr: the transport's error ends the turn (the
\* flags are cleared, the gate is flipped and the Sender notified).
R_ReadErr_releases_gate ==
    /\ variant = "sync"
    /\ rpc = "read"
    /\ net = <<>>
    /\ conn # "open"
    /\ last_read' = "err"
    /\ gate_lock' = "none"
    /\ ws_lock' = "none"
    /\ rpc' = "idle"
    /\ read_result' = Err("Transport")
    /\ turn_start' = FALSE
    /\ response' = FALSE
    /\ turn_end' = FALSE
    /\ can_read' = FALSE
    /\ spc' = IF spc = "waiting" THEN "woken" ELSE spc
    /\ UNCHANGED <<proxyVars, usageVars, msgVars, variant, calls, conn, fused, sent,
                   clientVars, poisoned, net, replied,
                   resets, send_result>>

\* websocket.read()? on a connection that delivers nothing more returns the
\* transport's error; the guards are dropped, the gate and flags keep.
R_ReadErr ==
    /\ variant = "sync"
    /\ rpc = "read"
    /\ net = <<>>
    /\ conn # "open"
    /\ last_read' = "err"
    /\ gate_lock' = "none"
    /\ ws_lock' = "none"
    /\ rpc' = "idle"
    /\ read_result' = Err("Transport")
    /\ UNCHANGED <<proxyVars, usageVars, msgVars, variant, calls, conn, fused, sent, turn_start, response,
                   turn_end, clientVars, can_read, poisoned, spc, net, replied,
                   resets, send_result>>

\* ------------------------------------------------------ SenderAsync (tasks)

\* Faulty variant of SenderAsync_can_send: the poll always lets send go on.
SenderAsync_can_send_always(gate) == TRUE

\* SenderAsync::can_send: !*self.can_read.lock().await
SenderAsync_can_send(gate) == ~gate

\* ReaderAsync::can_read: *self.can_read.lock().await
ReaderAsync_can_read(gate) == gate

\* The caller awaits sender.send(text, config).
A_S_Call ==
    /\ variant = "async"
    /\ spc = "idle"
    /\ calls < MaxSends
    /\ calls' = calls + 1
    /\ spc' = "poll"
    /\ send_result' = "-"
    /\ UNCHANGED <<proxyVars, usageVars, msgVars, variant, conn, fused, sent, turn_start, response, turn_end,
                   last_read, clientVars, can_read, gate_lock, ws_lock, poisoned,
                   rpc, net, replied, resets, read_result>>

\* The head of `while !self.can_send().await`: the lock is taken, the gate
\* read and the lock released.
A_S_Poll ==
    /\ variant = "async"
    /\ spc = "poll"
    /\ gate_lock = "none"
    /\ spc' = IF SenderAsync_can_send(can_read) THEN "lock" ELSE "sleep"
    /\ UNCHANGED <<proxyVars, usageVars, msgVars, variant, calls, conn, fused, sent, turn_start, response,
                   turn_end, last_read, clientVars, can_read, gate_lock, ws_lock,
                   poisoned, rpc, net, replied, resets, send_result, read_result>>

\* async_io::Timer::after(1 ms).await has elapsed.
A_S_Sleep ==
    /\ variant = "async"
    /\ spc = "sleep"
    /\ spc' = "poll"
    /\ UNCHANGED <<proxyVars, usageVars, msgVars, variant, calls, conn, fused, sent, turn_start, response,
                   turn_end, last_read, clientVars, can_read, gate_lock, ws_lock,
                   poisoned, rpc, net, replied, resets, send_result, read_result>>

\* let mut can_read = self.can_read.lock().await: held to the return.
A_S_Lock ==
    /\ variant = "async"
    /\ spc = "lock"
    /\ gate_lock = "none"
    /\ gate_lock' = "sender"
    /\ spc' = "send_config"
    /\ UNCHANGED <<proxyVars, usageVars, msgVars, variant, calls, conn, fused, sent, turn_start, response,
                   turn_end, last_read, clientVars, can_read, ws_lock, poisoned,
                   rpc, net, replied, resets, send_result, read_result>>

\* self.sink.send(config_message).await?
A_S_SendConfig ==
    /\ variant = "async"
    /\ spc = "send_config"
    /\ \E ok \in WriteOutcomes :
        IF ok
        THEN /\ sent' = Append(sent, "speech.config")
             /\ spc' = "send_ssml"
             /\ UNCHANGED <<gate_lock, send_result>>
        ELSE /\ sent' = sent
             /\ spc' = "idle"
             /\ gate_lock' = "none"
             /\ send_result' = "Err"
    /\ UNCHANGED <<proxyVars, usageVars, msgVars, variant, calls, conn, fused, turn_start, response, turn_end,
                   last_read, clientVars, can_read, ws_lock, poisoned, rpc, net,
                   replied, resets, read_result>>

\* self.sink.send(ssml_message).await?
A_S_SendSsml ==
    /\ variant = "async"
    /\ spc = "send_ssml"
    /\ \E ok \in WriteOutcomes :
        IF ok
        THEN /\ sent' = Append(sent, "ssml")
             /\ spc' = "set_gate"
             /\ UNCHANGED <<gate_lock, send_result>>
        ELSE /\ sent' = sent
             /\ spc' = "idle"
             /\ gate_lock' = "none"
             /\ send_result' = "Err"
    /\ UNCHANGED <<proxyVars, usageVars, msgVars, variant, calls, conn, fused, turn_start, response, turn_end,
                   last_read, clientVars, can_read, ws_lock, poisoned, rpc, net,
                   replied, resets, read_result>>

\* *can_read = true; Ok(()): the guard is dropped on return.
A_S_SetGate ==
    /\ variant = "async"
    /\ spc = "set_gate"
    /\ can_read' = TRUE
    /\ gate_lock' = "none"
    /\ spc' = "idle"
    /\ send_result' = "Ok"
    /\ UNCHANGED <<proxyVars, usageVars, msgVars, variant, calls, conn, fused, sent, turn_start, response,
                   turn_end, last_read, clientVars, ws_lock, poisoned, rpc, net,
                   replied, resets, read_result>>

\* ------------------------------------------------------ ReaderAsync (tasks)

\* The caller awaits reader.read().
A_R_Call ==
    /\ variant = "async"
    /\ rpc = "idle"
    /\ rpc' = "poll"
    /\ read_result' = OkNone
    /\ UNCHANGED <<proxyVars, usageVars, msgVars, variant, calls, conn, fused, sent, turn_start, response,
                   turn_end, last_read, clientVars, can_read, gate_lock, ws_lock,
                   poisoned, spc, net, replied, resets, send_result>>

\* The head of `while !self.can_read().await`.
A_R_Poll ==
    /\ variant = "async"
    /\ rpc = "poll"
    /\ gate_lock = "none"
    /\ rpc' = IF ReaderAsync_can_read(can_read) THEN "read" ELSE "sleep"
    /\ UNCHANGED <<proxyVars, usageVars, msgVars, variant, calls, conn, fused, sent, turn_start, response,
                   turn_end, last_read, clientVars, can_read, gate_lock, ws_lock,
                   poisoned, spc, net, replied, resets, send_result, read_result>>

\* async_io::Timer::after(1 ms).await has elapsed.
A_R_Sleep ==
    /\ variant = "async"
    /\ rpc = "sleep"
    /\ rpc' = "poll"
    /\ UNCHANGED <<proxyVars, usageVars, msgVars, variant, calls, conn, fused, sent, turn_start, response,
                   turn_end, last_read, clientVars, can_read, gate_lock, ws_lock,
                   poisoned, spc, net, replied, resets, send_result, read_result>>

\* self.stream.next().await yielded Some(Ok(message)): process_message(..)?
\* and the test of the three flags.  When they are all set they are cleared
\* and the task goes on to take the gate's lock; otherwise message.into()
\* and the return.  A panic ends the task; async_lock has no poisoning.
A_R_ReadFrame ==
    /\ variant = "async"
    /\ rpc = "read"
    /\ net # <<>>
    /\ ~fused
    /\ LET f == Head(net)
           pm == process_message(f, turn_start, response, turn_end)
           complete == TurnComplete(pm.turn_start, pm.response, pm.turn_end)
           out == SynthesizedResponseFrom(pm.res)
       IN  /\ net' = Tail(net)
           /\ last_read' = "frame"
           /\ conn' = IF f.kind = "Close" THEN "closed" ELSE conn
           /\ IF pm.res.tag \in {"Panic", "Err"}
              THEN /\ turn_start' = pm.turn_start
                   /\ response' = pm.response
                   /\ turn_end' = pm.turn_end
                   /\ rpc' = IF pm.res.tag = "Panic" THEN "panicked" ELSE "idle"
                   /\ read_result' = pm.res
              ELSE /\ turn_start' = (pm.turn_start /\ ~complete)
                   /\ response' = (pm.response /\ ~complete)
                   /\ turn_end' = (pm.turn_end /\ ~complete)
                   /\ rpc' = CASE complete -> "reset_gate"
                               [] out.tag = "Panic" -> "panicked"
                               [] OTHER -> "idle"
                   /\ read_result' = IF complete THEN pm.res ELSE out
    /\ UNCHANGED <<proxyVars, usageVars, msgVars, variant, calls, fused, sent, clientVars, can_read, gate_lock,
                   ws_lock, poisoned, spc, replied, resets, send_result>>

\* *self.can_read.lock().await = false, then message.into() and the return.
A_R_ResetGate ==
    /\ variant = "async"
    /\ rpc = "reset_gate"
    /\ gate_lock = "none"
    /\ can_read' = FALSE
    /\ resets' = resets + 1
    /\ LET out == SynthesizedResponseFrom(read_result)
       IN  /\ rpc' = IF out.tag = "Panic" THEN "panicked" ELSE "idle"
           /\ read_result' = out
    /\ UNCHANGED <<proxyVars, usageVars, msgVars, variant, calls, conn, fused, sent, turn_start, response,
                   turn_end, last_read, clientVars, gate_lock, ws_lock, poisoned,
                   spc, net, replied, send_result>>

\* self.stream.next().await yielded Some(Err(..)) for the dropped connection:
\* `message?` returns it.
A_R_ReadErr ==
    /\ variant = "async"
    /\ rpc = "read"
    /\ net = <<>>
    /\ conn = "ended"
    /\ ~fused
    /\ fused' = TRUE
    /\ last_read' = "err"
    /\ rpc' = "idle"
    /\ read_result' = Err("Transport")
    /\ UNCHANGED <<proxyVars, usageVars, msgVars, variant, calls, conn, sent, turn_start, response, turn_end,
                   clientVars, can_read, gate_lock, ws_lock, poisoned, spc, net,
                   replied, resets, send_result>>

\* self.stream.next().await yielded None (the stream has ended): Ok(None).
A_R_ReadNone ==
    /\ variant = "async"
    /\ rpc = "read"
    /\ fused \/ (net = <<>> /\ conn = "closed")
    /\ fused' = TRUE
    /\ last_read' = "none"
    /\ rpc' = "idle"
    /\ read_result' = OkNone
    /\ UNCHANGED <<proxyVars, usageVars, msgVars, variant, calls, conn, sent, turn_start, response, turn_end,
                   clientVars, can_read, gate_lock, ws_lock, poisoned, spc, net,
                   replied, resets, send_result>>

\* ------------------------------------------------------ the stream pair

StreamNext ==
    \/ ServerSend
    \/ StreamConnDrop
    \/ S_Call
    \/ S_LockGate
    \/ S_Check
    \/ S_SpuriousWake
    \/ S_LockWs
    \/ S_SendConfig
    \/ S_SendSsml
    \/ S_SetGate
    \/ R_Call
    \/ R_LockGate
    \/ R_Check
    \/ R_SpuriousWake
    \/ R_LockWs
    \/ R_ReadFrame
    \/ R_ReadErr
    \/ A_S_Call
    \/ A_S_Poll
    \/ A_S_Sleep
    \/ A_S_Lock
    \/ A_S_SendConfig
    \/ A_S_SendSsml
    \/ A_S_SetGate
    \/ A_R_Call
    \/ A_R_Poll
    \/ A_R_Sleep
    \/ A_R_ReadFrame
    \/ A_R_ResetGate
    \/ A_R_ReadErr
    \/ A_R_ReadNone

StreamSpec == StreamInit /\ [][StreamNext]_vars

\* Scheduling of the pair: each thread or task that can take a step
\* eventually takes it, a lock that is free again and again is eventually
\* obtained, and the Reader's caller keeps calling read.  Nothing is assumed
\* of the server, of the connection, of spurious wake-ups or of the Sender's
\* caller.
FairStreamSpec ==
    /\ StreamSpec
    /\ SF_vars(S_LockGate) /\ WF_vars(S_Check) /\ SF_vars(S_LockWs)
    /\ WF_vars(S_SendConfig) /\ WF_vars(S_SendSsml) /\ WF_vars(S_SetGate)
    /\ WF_vars(R_Call) /\ SF_vars(R_LockGate) /\ WF_vars(R_Check)
    /\ SF_vars(R_LockWs) /\ WF_vars(R_ReadFrame) /\ WF_vars(R_ReadErr)
    /\ SF_vars(A_S_Poll) /\ WF_vars(A_S_Sleep) /\ SF_vars(A_S_Lock)
    /\ WF_vars(A_S_SendConfig) /\ WF_vars(A_S_SendSsml) /\ WF_vars(A_S_SetGate)
    /\ WF_vars(A_R_Call) /\ SF_vars(A_R_Poll) /\ WF_vars(A_R_Sleep)
    /\ WF_vars(A_R_ReadFrame) /\ SF_vars(A_R_ResetGate)
    /\ WF_vars(A_R_ReadErr) /\ WF_vars(A_R_ReadNone)

\* --------------------------------------------- properties: the stream pair

\* The sends that have returned Ok: the requests written in full, less the
\* one whose send has not yet set the gate.
SuccessfulSends == NumRequests - (IF spc = "set_gate" THEN 1 ELSE 0)

\* The Sender is between its first write and its return.
SenderOnConnection == spc \in {"send_config", "send_ssml", "set_gate"}

\* C1: in the blocking pair, successful sends and gate resets alternate
\* starting with a send (the gate is 'data pending' exactly between a
\* successful send and the next reset), no send writes a message while the
\* gate is 'data pending', and the Sender is never between its writes while
\* the Reader is in its read of the connection.
C1_BlockingSendsAndResetsAlternate ==
    /\ [](variant = "sync" =>
            /\ SuccessfulSends - resets \in {0, 1}
            /\ can_read <=> (SuccessfulSends = resets + 1)
            /\ ~(SenderOnConnection /\ rpc = "read"))
    /\ [][(variant = "sync" /\ can_read) => sent' = sent]_vars

\* C1 witness: the blocking Sender's second send has returned after the
\* Reader's first reset of the gate.
C1_Witness ==
    /\ variant = "sync"
    /\ resets = 1
    /\ NumRequests = 2
    /\ can_read
    /\ spc = "idle"

\* C2: in the suspending pair, while a request written in full has not been
\* followed by the Reader's reset of the gate, no send writes anything to
\* the connection, whatever the interleaving of the two tasks; so at most
\* one request is ahead of the resets.
C2_SecondSendWaitsForDrain ==
    /\ [](variant = "async" => NumRequests - resets \in {0, 1})
    /\ [][(variant = "async" /\ NumRequests > resets) => sent' = sent]_vars

\* C2 witness: the second send of the suspending Sender sleeps between two
\* polls while a frame of the first request is still unread.
C2_Witness ==
    /\ variant = "async"
    /\ calls = 2
    /\ spc = "sleep"
    /\ NumRequests = 1
    /\ resets = 0
    /\ net # <<>>

\* C3: a read takes a frame off the connection only while the gate is 'data
\* pending', and a read returns only if the gate was 'data pending' when it
\* took its last step (both pairs).
C3_ReadWaitsForGate ==
    /\ [][Len(net') < Len(net) => can_read]_vars
    /\ [][(rpc \notin {"idle", "panicked"} /\ rpc' = "idle") => can_read]_vars

\* C3 witness: a read issued before the first send has completed waits with
\* the gate 'no data pending' although a frame is already on the connection.
C3_Witness ==
    /\ rpc \in {"waiting", "sleep"}
    /\ ~can_read
    /\ resets = 0
    /\ net # <<>>

\* C4 (as claimed): once the server has delivered the turn.end frame that
\* ends its answer to the k-th request, the Reader's reads bring the gate
\* back to 'no data pending' for the k-th time.
C4_BackpressureReleased ==
    \A k \in 1..MaxSends :
        (replied = k /\ net # <<>> /\ net[Len(net)] = TurnEndFrame)
            ~> (resets >= k)

\* ------------------------------------------ properties: unexpected frames

\* A text frame with none of the four path substrings, or a frame that is
\* neither text, binary nor close.
IsUnexpectedFrame(f) ==
    \/ /\ f.kind = "Text"
       /\ ~Contains(f.text, "audio.metadata")
       /\ ~Contains(f.text, "turn.start")
       /\ ~Contains(f.text, "response")
       /\ ~Contains(f.text, "turn.end")
    \/ f.kind \notin {"Text", "Binary", "Close"}

\* C11: whenever synthesize reads an unexpected frame, it returns the
\* UnexpectedMessage error carrying the frame's raw content, and the
\* TurnState and what was accumulated are left as they were.
C11_UnexpectedFrameIsError ==
    [][(Len(recvd') = Len(recvd) + 1 /\ IsUnexpectedFrame(recvd'[Len(recvd')]))
        => /\ pc' = "error"
           /\ result'.tag = "Err"
           /\ result'.err = "UnexpectedMessage"
           /\ result'.raw = recvd'[Len(recvd')].text
           /\ turn_start' = turn_start
           /\ response' = response
           /\ turn_end' = turn_end
           /\ audio_bytes' = audio_bytes
           /\ audio_metadata' = audio_metadata]_vars

\* C11 witness: a ping frame read after a turn.start marker ended the call
\* with the error carrying the ping's payload, turn_start still set.
C11_Witness ==
    /\ pc = "error"
    /\ recvd = <<TurnStartFrame, Ping>>
    /\ result.err = "UnexpectedMessage"
    /\ result.raw = <<"keepalive">>
    /\ turn_start

\* ------------------------------------------- properties: metadata frames

\* The tokens after the first separator of a text frame (none without one).
BodyOf(f) ==
    IF FirstIndex(f.text, "\r\n\r\n") = 0
    THEN <<>>
    ELSE Rest(f.text, FirstIndex(f.text, "\r\n\r\n"))

\* The bodies that are JSON documents with an array under "Metadata".
ArrayBodies == {"json:M1", "json:M2", "json:Odd", "json:Empty"}

\* A text frame containing audio.metadata whose body is such a document.
IsMetadataWithArray(f) ==
    /\ f.kind = "Text"
    /\ Contains(f.text, "audio.metadata")
    /\ Len(BodyOf(f)) = 1
    /\ BodyOf(f)[1] \in ArrayBodies

\* One event as the documents of this model spell it out.
Event(ty, off, dur, txt, len, bt) ==
    [metadata_type |-> ty, offset |-> off, duration |-> dur, text |-> txt,
     length |-> len, boundary_type |-> bt]

\* The events of each document, element by element, written out by hand:
\* absent or wrongly typed fields are None and 0.
EventsOfBody(tok) ==
    CASE tok = "json:M1" -> <<Event("WordBoundary", 100, 50, "Hi", 2, "Word")>>
      [] tok = "json:M2" -> <<Event("WordBoundary", 200, 10, "a", 1, "Word"),
                              Event("WordBoundary", 300, 20, "b", 1, "Word")>>
      [] tok = "json:Odd" -> <<Event("None", 0, 0, "None", 0, "None")>>
      [] OTHER -> <<>>

\* C12: classifying a text frame that contains audio.metadata and whose body
\* after the first separator is JSON with an array under Metadata emits one
\* list with one event per element, in order, with 0 / None for fields that
\* are missing or of the wrong type, and leaves the TurnState unchanged.
C12_MetadataEventsPerElement ==
    [][(pc = "classify" /\ IsMetadataWithArray(recvd[1]))
        => /\ pc' = "metadata"
           /\ audio_metadata' = EventsOfBody(BodyOf(recvd[1])[1])
           /\ turn_start' = turn_start
           /\ response' = response
           /\ turn_end' = turn_end]_vars

\* C12 witness: the frame whose one element has no Type, a negative Offset
\* and a numeric Text has been classified to one event of defaults.
C12_Witness ==
    /\ pc = "metadata"
    /\ recvd[1] = MetadataFrame("json:Odd")
    /\ Len(audio_metadata) = 1
    /\ audio_metadata[1].offset = 0
    /\ audio_metadata[1].text = "None"

\* A text frame containing audio.metadata.
IsMetadataFrame(f) == f.kind = "Text" /\ Contains(f.text, "audio.metadata")

\* C13: classifying a text frame that contains audio.metadata emits nothing
\* and returns no error when the frame has no separator; it returns an error
\* and emits no events when the body after the separator is not one JSON
\* document or holds no array under Metadata.  The TurnState is unchanged in
\* all three cases.
C13_MalformedMetadata ==
    [][(pc = "classify" /\ IsMetadataFrame(recvd[1]) /\ ~IsMetadataWithArray(recvd[1]))
        => /\ IF FirstIndex(recvd[1].text, "\r\n\r\n") = 0
              THEN pc' = "none" /\ result' = NoResult
              ELSE pc' = "error" /\ result'.tag = "Err"
           /\ audio_metadata' = <<>>
           /\ audio_bytes' = <<>>
           /\ turn_start' = turn_start
           /\ response' = response
           /\ turn_end' = turn_end]_vars

\* C13 witness: a metadata frame whose document has a string under Metadata
\* was refused with the turn_end flag still set and no event emitted.
C13_Witness ==
    /\ pc = "error"
    /\ recvd[1] = MetadataFrame("json:NoArray")
    /\ result.err = "UnexpectedMessage"
    /\ audio_metadata = <<>>
    /\ turn_end

\* ------------------------------------- properties: calls after an error

\* C14 (as claimed, for the errors raised while the connection is open):
\* once a synthesize call has returned an error, nothing more is ever
\* written to the connection (no later call starts a request) and no later
\* call returns a result.
C14_NoRequestAfterError ==
    \A k \in 0..(2 * MaxCalls) :
        [](pc = "error" /\ conn = "open" /\ Len(sent) = k
            => [](Len(sent) = k /\ pc # "done"))


\* ------------------------------------------------------ proxy tunnels

\* The scheme texts a proxy URI is written with; NoneStr is a URI without a
\* scheme.
SchemeTexts ==
    {"http", "HTTP", "https", "Https", "socks4", "SOCKS4", "socks4a",
     "Socks4A", "socks5", "SOCKS5", "socks5h", "Socks5H", "ftp", "socks",
     "SOCKS6", NoneStr}

\* str::to_lowercase on the scheme texts.
to_lowercase(s) ==
    CASE s = "HTTP" -> "http"
      [] s = "Https" -> "https"
      [] s = "SOCKS4" -> "socks4"
      [] s = "Socks4A" -> "socks4a"
      [] s = "SOCKS5" -> "socks5"
      [] s = "Socks5H" -> "socks5h"
      [] s = "SOCKS6" -> "socks6"
      [] OTHER -> s

\* Uri::scheme_str: http and https are recognised in any case when the URI
\* is parsed and come back in lower case, any other scheme comes back as it
\* was written.
scheme_str(uri) ==
    IF uri.scheme = NoneStr THEN NoneStr
    ELSE IF to_lowercase(uri.scheme) \in {"http", "https"}
         THEN to_lowercase(uri.scheme)
         ELSE uri.scheme

\* A faulty variant: the scheme is matched as it was written.
ProtocolOf_case_sensitive(uri) ==
    IF scheme_str(uri) = NoneStr THEN "http"
    ELSE LET scheme == scheme_str(uri) IN
         CASE scheme \in {"socks4", "socks4a"} -> "socks4"
           [] scheme \in {"socks5", "socks5h"} -> "socks5"
           [] scheme \in {"http", "https"} -> "http"
           [] OTHER -> "NotSupportedScheme"

\* The negotiation the match on the scheme selects.
ProtocolOf(uri) ==
    IF scheme_str(uri) = NoneStr THEN "http"
    ELSE LET scheme == to_lowercase(scheme_str(uri)) IN
         CASE scheme \in {"socks4", "socks4a"} -> "socks4"
           [] scheme \in {"socks5", "socks5h"} -> "socks5"
           [] scheme \in {"http", "https"} -> "http"
           [] OTHER -> "NotSupportedScheme"

\* websocket_connect_proxy / websocket_connect_proxy_async: the match on
\* proxy.scheme_str() that calls one negotiator or returns
\* ProxyError::NotSupportedScheme(proxy).
websocket_connect_proxy ==
    /\ ppc = "idle"
    /\ IF ProtocolOf(proxy) = "NotSupportedScheme"
       THEN /\ ppc' = "done"
            /\ presult' = PErr("ProxyError::NotSupportedScheme", proxy)
       ELSE /\ ppc' = ProtocolOf(proxy)
            /\ presult' = presult
    /\ UNCHANGED <<proxy, username, password, ppeer, presponse, pwritten, pbuf>>
    /\ UNCHANGED <<usageVars, msgVars, variant, calls, conn, fused, sent, turn_start, response,
                   turn_end, last_read, clientVars, streamVars>>

\* The proxy closes its end of the socket, or the connection is reset.
ProxyClose ==
    /\ ppc \notin {"idle", "done"}
    /\ ppeer = "open"
    /\ ppeer' \in {"closed", "reset"}
    /\ UNCHANGED <<proxy, username, password, ppc, presponse, pwritten, pbuf,
                   presult>>
    /\ UNCHANGED <<usageVars, msgVars, variant, calls, conn, fused, sent, turn_start, response,
                   turn_end, last_read, clientVars, streamVars>>


\* ---- HTTP CONNECT

\* let mut buf = [0u8; 1024]: the buffer's capacity, counted in the tokens
\* below (a status line, a header line and a body chunk count as one each).
BufCap == 24

\* let mut headers = [httparse::EMPTY_HEADER; 5].
MaxHeaders == 5

CR == [k |-> "cr", code |-> 0, reason |-> ""]
LF == [k |-> "lf", code |-> 0, reason |-> ""]
StatusLine(code, reason) == [k |-> "status", code |-> code, reason |-> reason]
HeaderLine == [k |-> "header", code |-> 0, reason |-> ""]
BodyChunk == [k |-> "body", code |-> 0, reason |-> ""]
Junk == [k |-> "junk", code |-> 0, reason |-> ""]

RECURSIVE HeaderLines(_)
HeaderLines(n) == IF n = 0 THEN <<>> ELSE <<HeaderLine, CR, LF>> \o HeaderLines(n - 1)

RECURSIVE BodyChunks(_)
BodyChunks(n) == IF n = 0 THEN <<>> ELSE <<BodyChunk>> \o BodyChunks(n - 1)

\* A well-formed response: status line, n header lines, the empty line, and
\* b chunks of body.
Response(code, reason, n, b) ==
    <<StatusLine(code, reason), CR, LF>> \o HeaderLines(n) \o <<CR, LF>>
        \o BodyChunks(b)

\* What a proxy answers a CONNECT request with.
HttpResponses ==
    {Response(200, "OK", 0, 0),
     Response(200, "Connection established", 2, 0),
     Response(200, "Connection established", MaxHeaders, 0),
     Response(200, "Connection established", MaxHeaders + 1, 0),
     Response(407, "Proxy Authentication Required", 1, 0),
     Response(407, "Proxy Authentication Required", 2, 1),
     Response(407, "Proxy Authentication Required", MaxHeaders + 1, 0),
     Response(502, "", 0, 0),
     <<StatusLine(200, "OK"), CR, LF>> \o HeaderLines(BufCap \div 3),
     <<Junk, CR, LF, CR, LF>>,
     <<CR, LF, CR, LF>>,
     <<>>}

\* n >= 4 && &buf[n - 4..n] == b"\r\n\r\n"
TerminatorAtEnd(buf) ==
    LET n == Len(buf) IN
    /\ n >= 4
    /\ SubSeq(buf, n - 3, n) = <<CR, LF, CR, LF>>

HttpParsed(e, code, reason) == [err |-> e, code |-> code, reason |-> reason]

\* httparse's header loop from token i on, count headers already stored:
\* the empty line completes the response, a header beyond the array's
\* capacity is Error::TooManyHeaders, anything else is an error too (the
\* bytes of buf after the n read ones are zero).
RECURSIVE ParseHeaders(_, _, _)
ParseHeaders(buf, i, count) ==
    IF i + 1 <= Len(buf) /\ buf[i] = CR /\ buf[i + 1] = LF THEN ""
    ELSE IF i + 2 <= Len(buf) /\ buf[i] = HeaderLine /\ buf[i + 1] = CR
            /\ buf[i + 2] = LF
         THEN IF count = MaxHeaders THEN "InvalidResponse(TooManyHeaders)"
              ELSE ParseHeaders(buf, i + 3, count + 1)
         ELSE "InvalidResponse(HeaderName)"

\* response.parse(&buf)?: the status line, then the headers. code 0 stands
\* for response.code == None.
httparse_parse(buf) ==
    IF Len(buf) >= 3 /\ buf[1].k = "status" /\ buf[2] = CR /\ buf[3] = LF
    THEN HttpParsed(ParseHeaders(buf, 4, 0), buf[1].code, buf[1].reason)
    ELSE IF Len(buf) = BufCap /\ \A i \in 1..Len(buf) : buf[i] \in {CR, LF}
         THEN HttpParsed("", 0, "")
         ELSE HttpParsed("InvalidResponse(Version)", 0, "")

\* match response.code { None => .., Some(200) => Ok(stream), Some(code) => .. }
HttpOutcome(buf) ==
    LET r == httparse_parse(buf) IN
    IF r.err # "" THEN PErr(r.err, <<>>)
    ELSE IF r.code = 0 THEN PErr("NoStatusCode", <<>>)
    ELSE IF r.code = 200 THEN POk("socket")
    ELSE PErr("BadResponse", <<r.code, r.reason>>)

\* build_http_proxy_request: the Proxy-Authorization line is there when both
\* credentials are.
build_http_proxy_request(u, p) ==
    [kind |-> "CONNECT", authorization |-> u.some /\ p.some]

\* http_proxy / http_proxy_async up to the read loop: the host checks, the
\* TCP (and for https the TLS) connection, the CONNECT request.
http_proxy_connect ==
    /\ ppc = "http"
    /\ IF proxy.host = NoneStr
       THEN /\ presult' = PErr("NoProxyServerHostName", proxy)
            /\ ppc' = "done"
            /\ pwritten' = pwritten
       ELSE IF proxy.host = ""
       THEN /\ presult' = PErr("EmptyProxyServerHostName", proxy)
            /\ ppc' = "done"
            /\ pwritten' = pwritten
       ELSE \E io \in {"ok", "IoError", "NativeTlsError"} :
            /\ io = "NativeTlsError" => to_lowercase(scheme_str(proxy)) = "https"
            /\ IF io = "ok"
               THEN /\ pwritten' = Append(pwritten,
                                     build_http_proxy_request(username, password))
                    /\ ppc' = "http_read"
                    /\ presult' = presult
               ELSE /\ pwritten' = pwritten
                    /\ ppc' = "done"
                    /\ presult' = PErr(io, <<>>)
    /\ UNCHANGED <<proxy, username, password, ppeer, presponse, pbuf>>
    /\ UNCHANGED <<usageVars, msgVars, variant, calls, conn, fused, sent, turn_start, response,
                   turn_end, last_read, clientVars, streamVars>>

Min(a, b) == IF a < b THEN a ELSE b

\* n += stream.read(&mut buf[n..])?: some of the bytes that have arrived,
\* at most as many as the rest of buf holds; 0 bytes when that rest is
\* empty or the proxy has closed; the read waits while nothing has arrived
\* on an open connection.
http_proxy_read ==
    /\ ppc = "http_read"
    /\ LET n == Len(pbuf)
           space == BufCap - n
           arrived == Len(presponse) - n
       IN IF ppeer = "reset"
          THEN /\ presult' = PErr("IoError", <<>>)
               /\ ppc' = "done"
               /\ pbuf' = pbuf
          ELSE /\ presult' = presult
               /\ ppc' = "http_test"
               /\ IF space = 0 THEN pbuf' = pbuf
                  ELSE IF arrived > 0
                  THEN \E k \in 1..Min(arrived, space) :
                          pbuf' = SubSeq(presponse, 1, n + k)
                  ELSE /\ ppeer = "closed"
                       /\ pbuf' = pbuf
    /\ UNCHANGED <<proxy, username, password, ppeer, presponse, pwritten>>
    /\ UNCHANGED <<usageVars, msgVars, variant, calls, conn, fused, sent, turn_start, response,
                   turn_end, last_read, clientVars, streamVars>>

\* if n >= 4 && &buf[n - 4..n] == b"\r\n\r\n" { break; }
http_proxy_test ==
    /\ ppc = "http_test"
    /\ ppc' = IF TerminatorAtEnd(pbuf) THEN "http_parse" ELSE "http_read"
    /\ UNCHANGED <<proxy, username, password, ppeer, presponse, pwritten,
                   pbuf, presult>>
    /\ UNCHANGED <<usageVars, msgVars, variant, calls, conn, fused, sent, turn_start, response,
                   turn_end, last_read, clientVars, streamVars>>

\* response.parse(&buf)? and the match on response.code.
http_proxy_parse ==
    /\ ppc = "http_parse"
    /\ presult' = HttpOutcome(pbuf)
    /\ ppc' = "done"
    /\ UNCHANGED <<proxy, username, password, ppeer, presponse, pwritten, pbuf>>
    /\ UNCHANGED <<usageVars, msgVars, variant, calls, conn, fused, sent, turn_start, response,
                   turn_end, last_read, clientVars, streamVars>>


\* ---- SOCKS4 / SOCKS4a

\* request.uri().host(): the bytes of the service's host name.
target_host == <<115, 112>>

\* What resolving target_host yields: an IPv4 address, an IPv6 one, none,
\* or an I/O error.
IpV4 == [v |-> 4, octets |-> <<10, 0, 0, 1>>]
IpV6 == [v |-> 6, octets |-> <<32, 1, 13, 184, 0, 0, 0, 0, 0, 0, 0, 0, 0, 0, 0, 1>>]
Resolutions == {"IoError", "none", "v4", "v6"}

\* A faulty variant of build_socks4_connection_request: the host name is
\* appended for socks4 as well.
build_socks4_connection_request_with_host(host, ip, u) ==
    <<4, 1, 1, 187>>
        \o (IF ip # <<>> THEN ip ELSE <<0, 0, 0, 1>>)
        \o (IF u.some THEN u.s ELSE <<>>) \o <<0>>
        \o host \o <<0>>

\* build_socks4_connection_request(target_host, dst_ip, username); ip is
\* <<>> for Option::None.
build_socks4_connection_request(host, ip, u) ==
    <<4, 1, 1, 187>>
        \o (IF ip # <<>> THEN ip ELSE <<0, 0, 0, 1>>)
        \o (IF u.some THEN u.s ELSE <<>>) \o <<0>>
        \o (IF ip = <<>> THEN host \o <<0>> ELSE <<>>)

\* The checks on the proxy URI that socks4_proxy and socks5_proxy start
\* with; "" when they pass.
SocksUriError(uri) ==
    IF scheme_str(uri) = NoneStr THEN "NoScheme"
    ELSE IF uri.host = NoneStr THEN "NoProxyServerHostName"
    ELSE IF uri.host = "" THEN "EmptyProxyServerHostName"
    ELSE IF uri.port = 0 THEN "NoProxyServerPort"
    ELSE ""

\* socks4_proxy / socks4_proxy_async up to the reply: the URI checks, the
\* TCP connection, the request for the scheme.
socks4_proxy_connect ==
    /\ ppc = "socks4"
    /\ IF SocksUriError(proxy) # ""
       THEN /\ presult' = PErr(SocksUriError(proxy), proxy)
            /\ ppc' = "done"
            /\ pwritten' = pwritten
       ELSE \E io \in {"ok", "IoError"}, r \in Resolutions :
            LET scheme == to_lowercase(scheme_str(proxy)) IN
            IF io = "IoError" \/ (scheme = "socks4" /\ r = "IoError")
            THEN /\ presult' = PErr("IoError", <<>>)
                 /\ ppc' = "done"
                 /\ pwritten' = pwritten
            ELSE IF scheme = "socks4" /\ r # "v4"
            THEN /\ presult' = PErr("NoIpV4Addr", target_host)
                 /\ ppc' = "done"
                 /\ pwritten' = pwritten
            ELSE IF scheme \notin {"socks4", "socks4a"}
            THEN /\ presult' = PErr("NotSupportedScheme", proxy)
                 /\ ppc' = "done"
                 /\ pwritten' = pwritten
            ELSE /\ pwritten' = Append(pwritten,
                        build_socks4_connection_request(target_host,
                            IF scheme = "socks4" THEN IpV4.octets ELSE <<>>,
                            username))
                 /\ ppc' = "socks4_reply"
                 /\ presult' = presult
    /\ UNCHANGED <<proxy, username, password, ppeer, presponse, pbuf>>
    /\ UNCHANGED <<usageVars, msgVars, variant, calls, conn, fused, sent, turn_start, response,
                   turn_end, last_read, clientVars, streamVars>>

\* The reply codes a SOCKS4 proxy is made to send.
Socks4Codes == {90, 91, 92, 93, 0, 255}

\* A faulty variant: the match looks at the reply's first byte.
Socks4Outcome_first_byte(buf) ==
    CASE buf[1] = 90 -> POk("socket")
      [] buf[1] = 91 -> PErr("RequestRejectedOrFailed", <<91>>)
      [] buf[1] = 92 -> PErr("NoneAvailableIdentdService", <<92>>)
      [] buf[1] = 93 -> PErr("IdentdCheckFailed", <<93>>)
      [] OTHER -> PErr("UnknownReplyCode", <<buf[1]>>)

\* match buf[1] { 0x5a => Ok(..), 0x5b => .., 0x5c => .., 0x5d => .., code => .. }
Socks4Outcome(buf) ==
    CASE buf[2] = 90 -> POk("socket")
      [] buf[2] = 91 -> PErr("RequestRejectedOrFailed", <<91>>)
      [] buf[2] = 92 -> PErr("NoneAvailableIdentdService", <<92>>)
      [] buf[2] = 93 -> PErr("IdentdCheckFailed", <<93>>)
      [] OTHER -> PErr("UnknownReplyCode", <<buf[2]>>)

\* stream.read_exact(&mut buf)? on 8 bytes and the match on buf[1]; an
\* I/O error when the proxy has gone.
socks4_proxy_reply ==
    /\ ppc = "socks4_reply"
    /\ IF ppeer # "open"
       THEN /\ presult' = PErr("IoError", <<>>)
            /\ pbuf' = pbuf
       ELSE \E vn \in {0, 4}, code \in Socks4Codes :
            /\ pbuf' = <<vn, code, 1, 187, 10, 0, 0, 1>>
            /\ presult' = Socks4Outcome(pbuf')
    /\ ppc' = "done"
    /\ UNCHANGED <<proxy, username, password, ppeer, presponse, pwritten>>
    /\ UNCHANGED <<usageVars, msgVars, variant, calls, conn, fused, sent, turn_start, response,
                   turn_end, last_read, clientVars, streamVars>>

\* ---- SOCKS5

\* A faulty variant: username/password is offered when either credential is there.
socks5_greeting_either(u, p) ==
    <<5>> \o (IF u.some \/ p.some THEN <<2, 0, 2>> ELSE <<1, 0>>)

\* Client greeting: VER, NAUTH, AUTH.
socks5_greeting(u, p) ==
    <<5>> \o (IF u.some /\ p.some THEN <<2, 0, 2>> ELSE <<1, 0>>)

\* usize as u8.
as_u8(n) == n % 256

\* build_socks5_authentication_request(username, password)
build_socks5_authentication_request(u, p) ==
    <<1>>
        \o (IF Len(u) = 0 THEN <<1, 0>> ELSE <<as_u8(Len(u))>> \o u)
        \o (IF Len(p) = 0 THEN <<1, 0>> ELSE <<as_u8(Len(p))>> \o p)

\* build_socks5_connection_request(target_host, dst_ip); ip is <<>> for
\* Option::None.
build_socks5_connection_request(host, ip) ==
    <<5, 1, 0>>
        \o (IF ip = <<>> THEN <<3, as_u8(Len(host))>> \o host
            ELSE IF ip.v = 4 THEN <<1>> \o ip.octets
            ELSE <<4>> \o ip.octets)
        \o <<1, 187>>

\* socks5_proxy / socks5_proxy_asnyc up to the server's choice: the URI
\* checks, the TCP connection, the greeting.
socks5_proxy_greeting ==
    /\ ppc = "socks5"
    /\ IF SocksUriError(proxy) # ""
       THEN /\ presult' = PErr(SocksUriError(proxy), proxy)
            /\ ppc' = "done"
            /\ pwritten' = pwritten
       ELSE \E io \in {"ok", "IoError"} :
            IF io = "IoError"
            THEN /\ presult' = PErr("IoError", <<>>)
                 /\ ppc' = "done"
                 /\ pwritten' = pwritten
            ELSE /\ pwritten' = Append(pwritten, socks5_greeting(username, password))
                 /\ ppc' = "socks5_choice"
                 /\ presult' = presult
    /\ UNCHANGED <<proxy, username, password, ppeer, presponse, pbuf>>
    /\ UNCHANGED <<usageVars, msgVars, variant, calls, conn, fused, sent, turn_start, response,
                   turn_end, last_read, clientVars, streamVars>>

\* The version and method bytes a SOCKS5 proxy is made to answer with.
Socks5Versions == {5, 4}
Socks5Methods == {0, 1, 2, 255}

\* Server choice: read_exact on 2 bytes, the version check, the check that
\* the method is 0x00 or 0x02.
socks5_proxy_choice ==
    /\ ppc = "socks5_choice"
    /\ IF ppeer # "open"
       THEN /\ presult' = PErr("IoError", <<>>)
            /\ ppc' = "done"
            /\ pbuf' = pbuf
       ELSE \E ver \in Socks5Versions, method \in Socks5Methods :
            /\ pbuf' = <<ver, method>>
            /\ IF ver # 5
               THEN /\ presult' = PErr("BadResponseVersion", <<ver>>)
                    /\ ppc' = "done"
               ELSE IF method # 0 /\ method # 2
               THEN /\ presult' = PErr("BadServerChoice", <<method>>)
                    /\ ppc' = "done"
               ELSE /\ presult' = presult
                    /\ ppc' = IF method = 2 THEN "socks5_auth" ELSE "socks5_request"
    /\ UNCHANGED <<proxy, username, password, ppeer, presponse, pwritten>>
    /\ UNCHANGED <<usageVars, msgVars, variant, calls, conn, fused, sent, turn_start, response,
                   turn_end, last_read, clientVars, streamVars>>

\* if buf[1] == 0x02: build_socks5_authentication_request(username.unwrap(),
\* password.unwrap()) and its write; unwrap panics on None.
socks5_proxy_auth ==
    /\ ppc = "socks5_auth"
    /\ IF ~username.some \/ ~password.some
       THEN /\ presult' = PPanic("unwrap on None")
            /\ ppc' = "done"
            /\ pwritten' = pwritten
       ELSE IF ppeer = "reset"
       THEN /\ presult' = PErr("IoError", <<>>)
            /\ ppc' = "done"
            /\ pwritten' = pwritten
       ELSE /\ pwritten' = Append(pwritten,
                   build_socks5_authentication_request(username.s, password.s))
            /\ ppc' = "socks5_auth_reply"
            /\ presult' = presult
    /\ UNCHANGED <<proxy, username, password, ppeer, presponse, pbuf>>
    /\ UNCHANGED <<usageVars, msgVars, variant, calls, conn, fused, sent, turn_start, response,
                   turn_end, last_read, clientVars, streamVars>>

\* Server response to the authentication: read_exact on 2 bytes, the
\* version check against 0x05, the status check against 0x00.
socks5_proxy_auth_reply ==
    /\ ppc = "socks5_auth_reply"
    /\ IF ppeer # "open"
       THEN /\ presult' = PErr("IoError", <<>>)
            /\ ppc' = "done"
            /\ pbuf' = pbuf
       ELSE \E ver \in {5, 1}, status \in {0, 1} :
            /\ pbuf' = <<ver, status>>
            /\ IF ver # 5
               THEN /\ presult' = PErr("BadResponseVersion", <<ver>>)
                    /\ ppc' = "done"
               ELSE IF status # 0
               THEN /\ presult' = PErr("ClientAuthenticationFailed", pbuf')
                    /\ ppc' = "done"
               ELSE /\ presult' = presult
                    /\ ppc' = "socks5_request"
    /\ UNCHANGED <<proxy, username, password, ppeer, presponse, pwritten>>
    /\ UNCHANGED <<usageVars, msgVars, variant, calls, conn, fused, sent, turn_start, response,
                   turn_end, last_read, clientVars, streamVars>>

\* Client connection: the request for the scheme (socks5 resolves the
\* host, socks5h sends its name) and its write.
socks5_proxy_request ==
    /\ ppc = "socks5_request"
    /\ \E r \in Resolutions :
       LET scheme == to_lowercase(scheme_str(proxy)) IN
       IF scheme = "socks5" /\ r = "IoError"
       THEN /\ presult' = PErr("IoError", <<>>)
            /\ ppc' = "done"
            /\ pwritten' = pwritten
       ELSE IF scheme = "socks5" /\ r = "none"
       THEN /\ presult' = PErr("NoIpAddr", target_host)
            /\ ppc' = "done"
            /\ pwritten' = pwritten
       ELSE IF scheme \notin {"socks5", "socks5h"}
       THEN /\ presult' = PErr("NotSupportedScheme", proxy)
            /\ ppc' = "done"
            /\ pwritten' = pwritten
       ELSE IF ppeer = "reset"
       THEN /\ presult' = PErr("IoError", <<>>)
            /\ ppc' = "done"
            /\ pwritten' = pwritten
       ELSE /\ pwritten' = Append(pwritten,
                   build_socks5_connection_request(target_host,
                       IF scheme = "socks5h" THEN <<>>
                       ELSE IF r = "v4" THEN IpV4 ELSE IpV6))
            /\ ppc' = "socks5_reply"
            /\ presult' = presult
    /\ UNCHANGED <<proxy, username, password, ppeer, presponse, pbuf>>
    /\ UNCHANGED <<usageVars, msgVars, variant, calls, conn, fused, sent, turn_start, response,
                   turn_end, last_read, clientVars, streamVars>>

\* stream.peer_addr(): the proxy's address and port 1080 as BNDADDR and
\* BNDPORT bytes.
PeerAddr == <<192, 0, 2, 1, 4, 56>>

\* The status and address-type bytes and the bound addresses a SOCKS5 proxy
\* is made to reply with.
Socks5Statuses == {0, 1, 2, 3, 4, 5, 6, 7, 8, 9, 255}
Socks5AddrTypes == {1, 3, 4}
BoundAddrs(atyp) ==
    IF atyp = 1 THEN {PeerAddr, <<0, 0, 0, 0, 0, 0>>, <<192, 0, 2, 1, 0, 80>>}
    ELSE IF atyp = 4 THEN {IpV6.octets \o <<4, 56>>}
    ELSE {<<>>}

\* The address and the port of a BNDADDR / BNDPORT byte sequence.
bound_ip(b) == SubSeq(b, 1, Len(b) - 2)
bound_port(b) == SubSeq(b, Len(b) - 1, Len(b))

\* A faulty variant of the comparison: the port is not compared.
bound_is_peer_ip_only(b) == bound_ip(b) = bound_ip(PeerAddr)

\* socket_addr.ip() == ip && socket_addr.port() == port
bound_is_peer(b) ==
    bound_ip(b) = bound_ip(PeerAddr) /\ bound_port(b) = bound_port(PeerAddr)

\* The named error of a reply status 0x01..0x08, UnknownReplyCode otherwise.
Socks5ReplyError(code) ==
    CASE code = 1 -> "GeneralFailure"
      [] code = 2 -> "ConnectionNotAllowedByRules"
      [] code = 3 -> "NetworkUnreachable"
      [] code = 4 -> "HostUnreachable"
      [] code = 5 -> "ConnectionRefused"
      [] code = 6 -> "TtlExpired"
      [] code = 7 -> "CommandNotSupported"
      [] code = 8 -> "AddressTypeNotSupported"
      [] OTHER -> "UnknownReplyCode"

\* Server response: read_exact on 4 bytes, match buf[1]; for 0x00 the match
\* on buf[3], the read of the bound address and port, the comparison with
\* the peer address and, when they differ, a new TCP connection to them.
socks5_proxy_reply ==
    /\ ppc = "socks5_reply"
    /\ IF ppeer # "open"
       THEN /\ presult' = PErr("IoError", <<>>)
            /\ pbuf' = pbuf
       ELSE \E ver \in Socks5Versions, status \in Socks5Statuses,
               atyp \in Socks5AddrTypes :
            \E bnd \in BoundAddrs(atyp), io \in {"ok", "IoError"} :
            /\ pbuf' = <<ver, status, 0, atyp>>
                         \o (IF status = 0 /\ atyp \in {1, 4} THEN bnd ELSE <<>>)
            /\ IF status = 0
               THEN IF atyp \in {1, 4}
                    THEN IF bound_is_peer(bnd) THEN presult' = POk("socket")
                         ELSE IF io = "ok" THEN presult' = POk("new")
                         ELSE presult' = PErr("IoError", <<>>)
                    ELSE presult' = PErr("NotSupportedServerBindAddressType", <<atyp>>)
               ELSE presult' = PErr(Socks5ReplyError(status), <<status>>)
    /\ ppc' = "done"
    /\ UNCHANGED <<proxy, username, password, ppeer, presponse, pwritten>>
    /\ UNCHANGED <<usageVars, msgVars, variant, calls, conn, fused, sent, turn_start, response,
                   turn_end, last_read, clientVars, streamVars>>

\* ---- the proxy specification

ProxyUris ==
    {[scheme |-> s, host |-> "proxy", port |-> 1080] : s \in SchemeTexts \ {NoneStr}}
        \cup {[scheme |-> NoneStr, host |-> "proxy", port |-> 1080],
              [scheme |-> NoneStr, host |-> NoneStr, port |-> 0],
              [scheme |-> "http", host |-> "", port |-> 0],
              [scheme |-> "http", host |-> "proxy", port |-> 0],
              [scheme |-> "socks4", host |-> "proxy", port |-> 0],
              [scheme |-> "SOCKS5", host |-> "proxy", port |-> 0]}

Credentials == {NoCred, SomeCred(<<117>>), SomeCred(<<>>)}

\* A user name and a password of 256 bytes each: one more than a length
\* byte can count.
LongCredential == SomeCred([i \in 1..256 |-> 117])

\* connect_proxy / connect_proxy_async: a proxy URI, two optional
\* credentials, and a proxy that will answer.
ProxyInit ==
    /\ variant \in {"sync", "async"}
    /\ calls = 0
    /\ conn = "open"
    /\ fused = FALSE
    /\ sent = <<>>
    /\ turn_start = FALSE
    /\ response = FALSE
    /\ turn_end = FALSE
    /\ last_read = "-"
    /\ ClientIdle
    /\ StreamIdle
    /\ proxy \in ProxyUris
    /\ \E c \in (Credentials \X Credentials) \cup {<<LongCredential, LongCredential>>} :
          username = c[1] /\ password = c[2]
    /\ ppc = "idle"
    /\ ppeer = "open"
    /\ presponse \in (IF ProtocolOf(proxy) = "http" THEN HttpResponses ELSE {<<>>})
    /\ pwritten = <<>>
    /\ pbuf = <<>>
    /\ presult = PNoResult
    /\ UsageIdle
    /\ MsgIdle

ProxyNext ==
    \/ websocket_connect_proxy
    \/ ProxyClose
    \/ http_proxy_connect
    \/ http_proxy_read
    \/ http_proxy_test
    \/ http_proxy_parse
    \/ socks4_proxy_connect
    \/ socks4_proxy_reply
    \/ socks5_proxy_greeting
    \/ socks5_proxy_choice
    \/ socks5_proxy_auth
    \/ socks5_proxy_auth_reply
    \/ socks5_proxy_request
    \/ socks5_proxy_reply

ProxySpec == ProxyInit /\ [][ProxyNext]_vars

\* The negotiation's own steps are taken when they can be; the proxy need
\* not close the connection.
FairProxySpec ==
    /\ ProxySpec
    /\ WF_vars(websocket_connect_proxy)
    /\ WF_vars(http_proxy_connect)
    /\ WF_vars(http_proxy_read)
    /\ WF_vars(http_proxy_test)
    /\ WF_vars(http_proxy_parse)
    /\ WF_vars(socks4_proxy_connect)
    /\ WF_vars(socks4_proxy_reply)
    /\ WF_vars(socks5_proxy_greeting)
    /\ WF_vars(socks5_proxy_choice)
    /\ WF_vars(socks5_proxy_auth)
    /\ WF_vars(socks5_proxy_auth_reply)
    /\ WF_vars(socks5_proxy_request)
    /\ WF_vars(socks5_proxy_reply)


\* ---- properties of the proxy tunnels

HttpSchemes == {"http", "HTTP", "https", "Https", NoneStr}
Socks4Schemes == {"socks4", "SOCKS4", "socks4a", "Socks4A"}
Socks5Schemes == {"socks5", "SOCKS5", "socks5h", "Socks5H"}

WellFormed(r) ==
    /\ Len(r) >= 5
    /\ r[1].k = "status"
    /\ \E i \in 2..(Len(r) - 3) : SubSeq(r, i, i + 3) = <<CR, LF, CR, LF>>

\* C16: once the HTTP CONNECT negotiation has read a well-formed response
\* up to its empty line and returned, it returned the stream if the status
\* code is 200 and BadResponse with the code and the reason phrase if it is
\* any other code, whatever headers the response has.
C16_StatusCodeDecides ==
    (/\ ppc = "done"
     /\ ProtocolOf(proxy) = "http"
     /\ WellFormed(presponse)
     /\ TerminatorAtEnd(pbuf))
    => IF presponse[1].code = 200
       THEN presult = POk("socket")
       ELSE presult = PErr("BadResponse",
                           <<presponse[1].code, presponse[1].reason>>)


\* C17: when the read loop of the HTTP CONNECT negotiation holds a full
\* buffer whose last four bytes are not \r\n\r\n, the negotiation
\* eventually returns an error.
C17_FullBufferFails ==
    (/\ ppc \in {"http_read", "http_test"}
     /\ Len(pbuf) = BufCap
     /\ ~TerminatorAtEnd(pbuf))
    ~> (ppc = "done" /\ presult.tag = "Err")


\* C18: the first write of a SOCKS5 negotiation is the greeting
\* [0x05, 0x02, 0x00, 0x02] when a user name and a password were both
\* supplied and [0x05, 0x01, 0x00] when they were not.
C18_GreetingOffersMethods ==
    (ProtocolOf(proxy) = "socks5" /\ Len(pwritten) >= 1) =>
        pwritten[1] = IF username.some /\ password.some
                      THEN <<5, 2, 0, 2>>
                      ELSE <<5, 1, 0>>

\* Both greetings have been written: this one with credentials.
C18_Witness ==
    /\ ProtocolOf(proxy) = "socks5"
    /\ username = SomeCred(<<117>>)
    /\ password = SomeCred(<<117>>)
    /\ ppc = "socks5_choice"
    /\ pwritten = << <<5, 2, 0, 2>> >>


\* The methods the greeting offered.
Offered == IF username.some /\ password.some THEN {0, 2} ELSE {0}

\* C19: a SOCKS5 negotiation that has ended after the greeting alone was
\* written and a server choice of version 5 with a method that was not
\* offered was read has returned an error value.
C19_UnofferedMethodIsError ==
    (/\ ProtocolOf(proxy) = "socks5"
     /\ ppc = "done"
     /\ Len(pwritten) = 1
     /\ Len(pbuf) = 2
     /\ pbuf[1] = 5
     /\ pbuf[2] \notin Offered)
    => presult.tag = "Err"


\* The errors the eight refusal codes of a SOCKS5 reply stand for.
NamedReplyErrors ==
    <<"GeneralFailure", "ConnectionNotAllowedByRules", "NetworkUnreachable",
      "HostUnreachable", "ConnectionRefused", "TtlExpired",
      "CommandNotSupported", "AddressTypeNotSupported">>

\* C20: a SOCKS5 negotiation that has read a connection reply and returned
\* has returned by the reply's status byte alone: a stream for 0x00 (unless
\* an I/O operation failed), the code's own named error for 0x01..0x08, and
\* UnknownReplyCode with the code for every other value.
C20_StatusByteDecides ==
    (/\ ProtocolOf(proxy) = "socks5"
     /\ ppc = "done"
     /\ Len(pbuf) >= 4)
    => LET status == pbuf[2] IN
       IF status = 0 THEN presult.tag = "Ok" \/ presult = PErr("IoError", <<>>)
       ELSE IF status \in 1..8
       THEN presult = PErr(NamedReplyErrors[status], <<status>>)
       ELSE presult = PErr("UnknownReplyCode", <<status>>)


\* C21: a SOCKS4 or SOCKS4a negotiation that has read its reply has read 8
\* bytes and returned by the second of them alone: the stream for 0x5A,
\* RequestRejectedOrFailed for 0x5B, NoneAvailableIdentdService for 0x5C,
\* IdentdCheckFailed for 0x5D, UnknownReplyCode with the byte otherwise.
C21_Socks4ReplyByteDecides ==
    (/\ ProtocolOf(proxy) = "socks4"
     /\ ppc = "done"
     /\ pbuf # <<>>)
    => /\ Len(pbuf) = 8
       /\ LET code == pbuf[2] IN
          IF code = 90 THEN presult = POk("socket")
          ELSE IF code = 91 THEN presult = PErr("RequestRejectedOrFailed", <<91>>)
          ELSE IF code = 92 THEN presult = PErr("NoneAvailableIdentdService", <<92>>)
          ELSE IF code = 93 THEN presult = PErr("IdentdCheckFailed", <<93>>)
          ELSE presult = PErr("UnknownReplyCode", <<code>>)

\* A socks4a negotiation was refused for want of an identd service, the
\* reply's first byte being 4.
C21_Witness ==
    /\ to_lowercase(proxy.scheme) = "socks4a"
    /\ ppc = "done"
    /\ Len(pbuf) = 8
    /\ pbuf[1] = 4
    /\ pbuf[2] = 92
    /\ presult = PErr("NoneAvailableIdentdService", <<92>>)


\* C22: Reader and ReaderAsync agree on a read that gets no frame: in
\* either variant a read call that returns without a frame having been
\* delivered to it returns what the blocking Reader returns there, the
\* transport's error.
C22_VariantsAgreeWithoutFrame ==
    [][(rpc = "read" /\ rpc' = "idle" /\ net' = net)
        => read_result' = Err("Transport")]_vars


\* ------------------------------------------------------ the stream example

\* The frames of a complete turn, in the order the service sends them.
CompleteTurn == <<TurnStartFrame, ResponseFrame, AudioA, TurnEndFrame>>

\* The server answers a request it has received in full with the next frame
\* of a complete turn.
U_ServerSend ==
    /\ conn = "open"
    /\ replied < NumRequests
    /\ Len(net) < MaxNet
    /\ net' = Append(net, CompleteTurn[srv + 1])
    /\ srv' = (srv + 1) % Len(CompleteTurn)
    /\ replied' = IF srv + 1 = Len(CompleteTurn) THEN replied + 1 ELSE replied
    /\ UNCHANGED <<proxyVars, msgVars, variant, calls, conn, fused, sent, turn_start,
                   response, turn_end, last_read, clientVars, can_read,
                   gate_lock, ws_lock, poisoned, spc, rpc, resets, send_result,
                   read_result, signal, cpos>>

\* The producer thread: sender.send(..).unwrap(), MaxSends times, each
\* after the one before has returned Ok.
U_CallSend ==
    /\ variant = "sync"
    /\ spc = "idle"
    /\ calls < MaxSends
    /\ send_result # "Err"
    /\ calls' = calls + 1
    /\ spc' = "lock_gate"
    /\ send_result' = "-"
    /\ UNCHANGED <<proxyVars, usageVars, msgVars, variant, conn, fused, sent, turn_start,
                   response, turn_end, last_read, clientVars, can_read,
                   gate_lock, ws_lock, poisoned, rpc, net, replied, resets,
                   read_result>>

\* The producer thread after its last send: end.store(true, Ordering::Relaxed).
U_StoreSignal ==
    /\ spc = "idle"
    /\ calls = MaxSends
    /\ send_result = "Ok"
    /\ ~signal
    /\ signal' = TRUE
    /\ UNCHANGED <<proxyVars, msgVars, variant, calls, conn, fused, sent, turn_start,
                   response, turn_end, last_read, clientVars, streamVars, cpos,
                   srv>>

\* The consumer loop's head, on entry and after read().unwrap() returned:
\* signal.load(Ordering::Relaxed), the left operand of &&.
U_LoadSignal ==
    /\ cpos = "load" \/ (cpos = "in_read" /\ rpc = "idle")
    /\ read_result.tag \notin {"Err", "Panic"}
    /\ cpos' = IF signal THEN "can_read" ELSE "call_read"
    /\ UNCHANGED <<proxyVars, msgVars, variant, calls, conn, fused, sent, turn_start,
                   response, turn_end, last_read, clientVars, streamVars,
                   signal, srv>>

\* !reader.can_read(), the right operand: *can_read.lock().unwrap(); when
\* the gate is false the loop breaks.
U_CanRead ==
    /\ cpos = "can_read"
    /\ gate_lock = "none"
    /\ ~poisoned
    /\ cpos' = IF can_read THEN "call_read" ELSE "exited"
    /\ UNCHANGED <<proxyVars, msgVars, variant, calls, conn, fused, sent, turn_start,
                   response, turn_end, last_read, clientVars, streamVars,
                   signal, srv>>

\* The consumer loop's body: reader.read().
U_CallRead ==
    /\ variant = "sync"
    /\ cpos = "call_read"
    /\ rpc = "idle"
    /\ cpos' = "in_read"
    /\ rpc' = "lock_gate"
    /\ read_result' = OkNone
    /\ UNCHANGED <<proxyVars, msgVars, variant, calls, conn, fused, sent, turn_start,
                   response, turn_end, last_read, clientVars, can_read,
                   gate_lock, ws_lock, poisoned, spc, net, replied, resets,
                   send_result, signal, srv>>

\* msedge_tts_split(), the producer thread spawned, the consumer at the head
\* of its loop.
UsageInit ==
    /\ StreamInit
    /\ variant = "sync"

UsageNext ==
    \/ U_ServerSend
    \/ U_CallSend
    \/ U_StoreSignal
    \/ U_LoadSignal
    \/ U_CanRead
    \/ U_CallRead
    \/ S_LockGate
    \/ S_Check
    \/ S_SpuriousWake
    \/ S_LockWs
    \/ S_SendConfig
    \/ S_SendSsml
    \/ S_SetGate
    \/ R_LockGate
    \/ R_Check
    \/ R_SpuriousWake
    \/ R_LockWs
    \/ R_ReadFrame

UsageSpec == UsageInit /\ [][UsageNext]_vars

\* Both threads and the server take the steps they can take; a lock that is
\* free again and again is eventually obtained.  Nothing is assumed of
\* spurious wake-ups.
FairUsageSpec ==
    /\ UsageSpec
    /\ WF_vars(U_ServerSend) /\ WF_vars(U_CallSend) /\ WF_vars(U_StoreSignal)
    /\ WF_vars(U_LoadSignal) /\ SF_vars(U_CanRead) /\ WF_vars(U_CallRead)
    /\ SF_vars(S_LockGate) /\ WF_vars(S_Check) /\ SF_vars(S_LockWs)
    /\ WF_vars(S_SendConfig) /\ WF_vars(S_SendSsml) /\ WF_vars(S_SetGate)
    /\ SF_vars(R_LockGate) /\ WF_vars(R_Check) /\ SF_vars(R_LockWs)
    /\ WF_vars(R_ReadFrame)

\* C23: the consumer loop of the example eventually breaks.
C23_ConsumerLoopExits == <>(cpos = "exited")


\* ------------------------------------- properties: the Reader's turn state

\* A step of read in which the connection delivers a frame.
ReadsFrame == rpc = "read" /\ net # <<>> /\ net' = Tail(net)

\* The three flags after process_message has classified the frame read in
\* this step.
AllSetAfter ==
    LET pm == process_message(Head(net), turn_start, response, turn_end)
    IN  pm.res.tag # "Panic" /\ pm.turn_start /\ pm.response /\ pm.turn_end

\* C24: in both variants, the read step that takes a frame takes one frame;
\* if all three flags are true after its classification the flags are
\* cleared and the gate is set to false before read returns (ReaderAsync
\* does so in the step that follows, on the gate's lock), and otherwise the
\* gate keeps and no flag is cleared; the gate goes from true to false and
\* a flag from true to false in no other step.
C24_ResetExactlyOnCompleteTurn ==
    [][/\ (rpc # rpc' \/ net' # net \/ can_read' # can_read)
          => (net' = net \/ ReadsFrame \/ Len(net') = Len(net) + 1)
       /\ (ReadsFrame /\ AllSetAfter)
          => /\ ~turn_start' /\ ~response' /\ ~turn_end'
             /\ IF variant = "sync"
                THEN ~can_read' /\ resets' = resets + 1
                ELSE rpc' = "reset_gate"
       /\ (rpc = "reset_gate" /\ rpc' # rpc) => (~can_read' /\ resets' = resets + 1)
       /\ (ReadsFrame /\ ~AllSetAfter)
          => /\ can_read' = can_read
             /\ resets' = resets
             /\ turn_start => turn_start'
             /\ response => response'
             /\ turn_end => turn_end'
       /\ (can_read /\ ~can_read')
          => ((ReadsFrame /\ AllSetAfter) \/ rpc = "reset_gate")
       /\ ((turn_start /\ ~turn_start') \/ (response /\ ~response')
              \/ (turn_end /\ ~turn_end'))
          => (ReadsFrame /\ AllSetAfter)]_vars

\* A read of the blocking Reader has just taken the turn.end frame that
\* completed a turn: flags cleared, gate false, one frame gone.
C24_Witness ==
    /\ variant = "sync"
    /\ resets = 1
    /\ rpc = "idle"
    /\ last_read = "frame"
    /\ ~can_read
    /\ ~turn_start /\ ~response /\ ~turn_end
    /\ read_result = OkNone
    /\ NumRequests = 1


\* ------------------------------------------- either kind of connection

\* msedge_tts_split / msedge_tts_split_async: the connection belongs to a
\* Sender/Reader pair and no one-shot client exists.
SplitInit ==
    /\ variant \in {"sync", "async"}
    /\ calls = 0
    /\ conn = "open"
    /\ fused = FALSE
    /\ sent = <<>>
    /\ turn_start = FALSE
    /\ response = FALSE
    /\ turn_end = FALSE
    /\ last_read = "-"
    /\ ProxyIdle
    /\ UsageIdle
    /\ MsgIdle
    /\ pc = "split"
    /\ audio_format = ""
    /\ audio_bytes = <<>>
    /\ audio_metadata = <<>>
    /\ recvd = <<>>
    /\ result = NoResult
    /\ StreamIdle

\* A connection is used by a one-shot client or by a stream pair.
AnyInit == Init \/ SplitInit

AnyNext ==
    \/ (pc # "split" /\ Call)
    \/ (pc # "split" /\ SendConfig)
    \/ (pc # "split" /\ SendSsml)
    \/ (pc # "split" /\ ConnDrop)
    \/ (pc # "split" /\ RecvFrame)
    \/ (pc # "split" /\ RecvErrSync)
    \/ (pc # "split" /\ RecvErrAsync)
    \/ (pc # "split" /\ RecvNoneAsync)
    \/ (pc # "split" /\ Finish)
    \/ (pc = "split" /\ ServerSend)
    \/ (pc = "split" /\ StreamConnDrop)
    \/ (pc = "split" /\ S_Call)
    \/ (pc = "split" /\ S_LockGate)
    \/ (pc = "split" /\ S_Check)
    \/ (pc = "split" /\ S_SpuriousWake)
    \/ (pc = "split" /\ S_LockWs)
    \/ (pc = "split" /\ S_SendConfig)
    \/ (pc = "split" /\ S_SendSsml)
    \/ (pc = "split" /\ S_SetGate)
    \/ (pc = "split" /\ R_Call)
    \/ (pc = "split" /\ R_LockGate)
    \/ (pc = "split" /\ R_Check)
    \/ (pc = "split" /\ R_SpuriousWake)
    \/ (pc = "split" /\ R_LockWs)
    \/ (pc = "split" /\ R_ReadFrame)
    \/ (pc = "split" /\ R_ReadErr)
    \/ (pc = "split" /\ A_S_Call)
    \/ (pc = "split" /\ A_S_Poll)
    \/ (pc = "split" /\ A_S_Sleep)
    \/ (pc = "split" /\ A_S_Lock)
    \/ (pc = "split" /\ A_S_SendConfig)
    \/ (pc = "split" /\ A_S_SendSsml)
    \/ (pc = "split" /\ A_S_SetGate)
    \/ (pc = "split" /\ A_R_Call)
    \/ (pc = "split" /\ A_R_Poll)
    \/ (pc = "split" /\ A_R_Sleep)
    \/ (pc = "split" /\ A_R_ReadFrame)
    \/ (pc = "split" /\ A_R_ResetGate)
    \/ (pc = "split" /\ A_R_ReadErr)
    \/ (pc = "split" /\ A_R_ReadNone)

AnySpec == AnyInit /\ [][AnyNext]_vars

\* C25: a synthesize call enters its read loop with the three flags false,
\* whatever earlier calls on the client left, and in a stream pair the
\* Reader's three flags are false whenever the gate is false.
C25_RequestsStartAllFalse ==
    /\ (pc = "loop" /\ recvd = <<>>)
       => (~turn_start /\ ~response /\ ~turn_end)
    /\ (pc = "split" /\ ~can_read)
       => (~turn_start /\ ~response /\ ~turn_end)

\* The second synthesize call on a client is about to read its first frame.
C25_Witness ==
    /\ pc = "loop"
    /\ calls = 2
    /\ recvd = <<>>
    /\ sent = <<"speech.config", "ssml", "speech.config", "ssml">>
    /\ ~turn_start /\ ~response /\ ~turn_end


\* The writer's position: synthesize's for a one-shot client, send's for a
\* pair.
WriterAt(p) == IF pc = "split" THEN spc = p ELSE pc = p

\* C26: a message is written only by a call that is at its configuration
\* write or at its SSML write; the configuration write appends
\* speech.config and moves on to the SSML write, the SSML write appends
\* ssml and moves on to the read loop (synthesize) or to setting the gate
\* (send); the SSML write is reached in no other way, so a call whose
\* configuration write fails writes nothing more and returns an error; no
\* frame is read by synthesize before its loop, which only a successful
\* SSML write enters; the gate goes from false to true only in the step
\* after send's successful SSML write.
C26_ConfigThenSsml ==
    [][/\ sent' # sent
          => \/ /\ WriterAt("send_config")
                /\ sent' = Append(sent, "speech.config")
                /\ IF pc = "split" THEN spc' = "send_ssml" ELSE pc' = "send_ssml"
             \/ /\ WriterAt("send_ssml")
                /\ sent' = Append(sent, "ssml")
                /\ IF pc = "split" THEN spc' = "set_gate" ELSE pc' = "loop"
       /\ (pc # "send_ssml" /\ pc' = "send_ssml")
          => (pc = "send_config" /\ sent' = Append(sent, "speech.config"))
       /\ (spc # "send_ssml" /\ spc' = "send_ssml")
          => (spc = "send_config" /\ sent' = Append(sent, "speech.config"))
       /\ (pc = "send_config" /\ pc' # pc /\ sent' = sent)
          => (pc' = "error" /\ result'.tag = "Err")
       /\ (spc = "send_config" /\ spc' # spc /\ sent' = sent)
          => (spc' = "idle" /\ send_result' = "Err")
       /\ (pc # "loop" /\ pc' = "loop")
          => (pc = "send_ssml" /\ sent' = Append(sent, "ssml"))
       /\ (recvd' # recvd /\ recvd' # <<>>) => pc = "loop"
       /\ (spc # "set_gate" /\ spc' = "set_gate")
          => (spc = "send_ssml" /\ sent' = Append(sent, "ssml"))
       /\ (~can_read /\ can_read')
          => (spc = "set_gate" /\ spc' = "idle" /\ send_result' = "Ok")]_vars

\* One synthesize call has returned Ok having written its two messages.
C26_Witness ==
    /\ pc = "done"
    /\ calls = 1
    /\ result.tag = "Ok"
    /\ sent = <<"speech.config", "ssml">>


\* ------------------------------------- properties: the order of the tests

\* The text frame f has the piece s somewhere.
Has(f, s) == \E i \in 1..Len(f.text) : f.text[i] = s

\* The number of flags a step changes.
FlagsChanged ==
    (IF turn_start' # turn_start THEN 1 ELSE 0)
        + (IF response' # response THEN 1 ELSE 0)
        + (IF turn_end' # turn_end THEN 1 ELSE 0)

\* C27: classifying a text frame handles it as the first of audio.metadata,
\* turn.start, response, turn.end that it contains: an audio.metadata frame
\* touches no flag whatever else it contains; otherwise a turn.start frame
\* sets turn_start and nothing else; otherwise a response frame sets
\* response and nothing else; otherwise a turn.end frame sets turn_end and
\* nothing else.  At most one flag changes.
C27_FirstMatchDecides ==
    [][(pc = "classify" /\ recvd[1].kind = "Text")
        => LET f == recvd[1] IN
           /\ FlagsChanged <= 1
           /\ IF Has(f, "audio.metadata")
              THEN /\ turn_start' = turn_start
                   /\ response' = response
                   /\ turn_end' = turn_end
              ELSE IF Has(f, "turn.start")
              THEN /\ turn_start'
                   /\ response' = response
                   /\ turn_end' = turn_end
                   /\ pc' = "none"
              ELSE IF Has(f, "response")
              THEN /\ turn_start' = turn_start
                   /\ response'
                   /\ turn_end' = turn_end
                   /\ pc' = "none"
              ELSE IF Has(f, "turn.end")
              THEN /\ turn_start' = turn_start
                   /\ response' = response
                   /\ turn_end'
                   /\ pc' = "none"
              ELSE pc' = "error"]_vars

\* A frame with both response and turn.end was handled as response: the
\* turn_end flag is still false.
C27_Witness ==
    /\ pc = "none"
    /\ recvd[1] = Text(<<"Path:", "response", "\r\n\r\n", "turn.end">>)
    /\ response
    /\ ~turn_end


\* ---------------------------------------------------------------------
\* C28: classification is idempotent and monotone on the three flags.  Every
\* pass of the one-shot client's loop that classifies a frame keeps each flag
\* that was true; a turn.start frame (a response frame) leaves turn_start
\* (response) true, returns no error and touches no other flag, so that the
\* same frame classified again changes nothing.
Classifies == pc = "loop" /\ Len(recvd') = Len(recvd) + 1

Classified == recvd'[Len(recvd')]

MarkerFrame(f, marker) ==
    /\ f.kind = "Text"
    /\ ~Contains(f.text, "audio.metadata")
    /\ Contains(f.text, marker)

C28_ClassificationMonotone ==
    [][Classifies =>
         /\ turn_start => turn_start'
         /\ response => response'
         /\ turn_end => turn_end'
         /\ MarkerFrame(Classified, "turn.start") =>
               /\ turn_start'
               /\ pc' = "loop"
               /\ response' = response /\ turn_end' = turn_end
               /\ turn_start => UNCHANGED <<audio_bytes, audio_metadata, result>>
         /\ (MarkerFrame(Classified, "response")
              /\ ~MarkerFrame(Classified, "turn.start")) =>
               /\ response'
               /\ pc' = "loop"
               /\ turn_start' = turn_start /\ turn_end' = turn_end
               /\ response => UNCHANGED <<audio_bytes, audio_metadata, result>>]_vars

\* The turn.start frame has been classified three times in one call, and the
\* call is still in its loop with turn_start set and nothing else changed.
C28_Witness ==
    /\ pc = "loop"
    /\ recvd = <<TurnStartFrame, TurnStartFrame, TurnStartFrame>>
    /\ turn_start /\ ~response /\ ~turn_end
    /\ audio_bytes = <<>> /\ audio_metadata = <<>>


\* ---------------------------------------------------------------------
\* C29: the order of the SOCKS5 negotiation.

\* The kind of a message the negotiation wrote: the username/password
\* request starts with 0x01, the greeting and the connection request with
\* 0x05, and the greeting has at most four bytes.
AuthRequest(m) == m[1] = 1
ConnectionRequest(m) == m[1] = 5 /\ Len(m) > 4

\* Every write of the negotiation comes at its place: the greeting first; the
\* username/password request second and only on the server's choice
\* [0x05, 0x02]; the connection request after the greeting on the choice
\* [0x05, 0x00], or after the username/password request on the
\* authentication reply [0x05, 0x00].
Socks5WritesInOrder ==
    (ProtocolOf(proxy) = "socks5" /\ pwritten' # pwritten) =>
        /\ Len(pwritten') = Len(pwritten) + 1
        /\ LET m == pwritten'[Len(pwritten')] IN
           CASE Len(pwritten) = 0 -> m = socks5_greeting(username, password)
             [] Len(pwritten) = 1 ->
                   \/ AuthRequest(m) /\ pbuf = <<5, 2>>
                   \/ ConnectionRequest(m) /\ pbuf = <<5, 0>>
             [] Len(pwritten) = 2 ->
                   /\ AuthRequest(pwritten[2])
                   /\ ConnectionRequest(m)
                   /\ pbuf = <<5, 0>>
             [] OTHER -> FALSE

\* A negotiation that ended after the username/password request, with an
\* authentication reply other than [0x05, 0x00], returned an error.
Socks5AuthRefusedIsError ==
    (/\ ProtocolOf(proxy) = "socks5"
     /\ ppc = "done"
     /\ Len(pwritten) = 2
     /\ AuthRequest(pwritten[2])
     /\ Len(pbuf) = 2
     /\ pbuf # <<5, 0>>)
    => presult.tag = "Err"

\* A negotiation that ended after the greeting and the server's choice
\* [0x05, 0x02] without the username/password request being written was
\* stopped by the transport.
Socks5ChosenAuthIsWritten ==
    (/\ ProtocolOf(proxy) = "socks5"
     /\ ppc = "done"
     /\ Len(pwritten) = 1
     /\ pbuf = <<5, 2>>)
    => presult = PErr("IoError", <<>>)

\* C29: in the SOCKS5 negotiation the greeting, the server's choice, the
\* optional authentication and the connection request come in this order:
\* on the choice 0x02 the username/password request is written, the
\* connection request follows only an authentication reply [0x05, 0x00], any
\* other authentication reply ends in an error, and on the choice 0x00 no
\* username/password request is written.
C29_NegotiationInOrder ==
    [][/\ Socks5WritesInOrder
       /\ Socks5AuthRefusedIsError'
       /\ Socks5ChosenAuthIsWritten']_vars


UserId == IF username.some THEN username.s ELSE <<>>

C31_Socks4RequestLayout ==
    (ProtocolOf(proxy) = "socks4" /\ pwritten # <<>>) =>
        LET m == pwritten[1]
            a == to_lowercase(scheme_str(proxy)) = "socks4a"
            n == Len(UserId)
        IN  /\ Len(pwritten) = 1
            /\ Len(m) = 9 + n + (IF a THEN Len(target_host) + 1 ELSE 0)
            /\ SubSeq(m, 1, 4) = <<4, 1, 1, 187>>
            /\ SubSeq(m, 5, 8) = (IF a THEN <<0, 0, 0, 1>> ELSE IpV4.octets)
            /\ SubSeq(m, 9, 8 + n) = UserId
            /\ m[9 + n] = 0
            /\ a => /\ SubSeq(m, 10 + n, Len(m) - 1) = target_host
                    /\ m[Len(m)] = 0

\* A socks4 request with a user id was written and accepted; it ends with the
\* user id's terminator.
C31_Witness ==
    /\ ProtocolOf(proxy) = "socks4"
    /\ to_lowercase(scheme_str(proxy)) = "socks4"
    /\ ppc = "done"
    /\ presult = POk("socket")
    /\ pwritten = << <<4, 1, 1, 187, 10, 0, 0, 1, 117, 0>> >>


\* ---------------------------------------------------------------------
\* The two outbound messages.  A message is the sequence of the pieces that
\* format! joins; a text is a sequence of pieces as well.

MaxTextLen == 2

\* Pieces a caller's text is made of: a letter, XML-unsafe characters, the
\* header separator, the closing tags of the SSML document.
TextPieces == {"a", "<", "&", "\r\n\r\n", "</prosody></voice></speak>"}

Texts == UNION {[1..n -> TextPieces] : n \in 0..MaxTextLen}

\* SpeechConfig values: voice_name and audio_format are strings, pitch, rate
\* and volume are i32.
SpeechConfigs ==
    [voice_name : {"en-US-AriaNeural"},
     audio_format : AudioFormats,
     pitch : {-12, 0, 7},
     rate : {-12, 0, 7},
     volume : {-12, 0, 7}]

\* chrono::Local::now().to_rfc2822() and uuid::Uuid::new_v4().simple().
Timestamps == {"Tue, 1 Jul 2003 10:52:37 +0200", "Wed, 2 Jul 2003 00:00:00 +0000"}
Uuids == {"67e5504410b1426f9247bb680e5fe0c8"}

\* A faulty variant of the {:+} rendering: zero is rendered without a sign.
fmt_signed_bare_zero(n) ==
    <<IF n > 0 THEN "+" ELSE IF n < 0 THEN "-" ELSE "", ToString(IF n < 0 THEN -n ELSE n)>>

\* format!("{:+}", n) for an i32: the sign, then the decimal digits.
fmt_signed(n) ==
    <<IF n >= 0 THEN "+" ELSE "-", ToString(IF n < 0 THEN -n ELSE n)>>

SPEECH_CONFIG_HEAD ==
    "{\"context\":{\"synthesis\":{\"audio\":{\"metadataoptions\":{\"sentenceBoundaryEnabled\":\"false\",\"wordBoundaryEnabled\":\"true\"},\"outputFormat\":\""

SPEECH_CONFIG_TAIL == "\"}}}}"

\* build_config_message(config), with the time it reads.
build_config_message(config, ts) ==
    <<"X-Timestamp:", ts, "\r\n",
      "Content-Type:application/json; charset=utf-8", "\r\n",
      "Path:speech.config", "\r\n\r\n",
      SPEECH_CONFIG_HEAD, config.audio_format, SPEECH_CONFIG_TAIL>>

\* build_ssml_message(text, config), with the identifier it draws and the
\* time it reads.
build_ssml_message(text, config, uuid, ts) ==
    <<"X-RequestId:", uuid, "\r\n",
      "Content-Type:application/ssml+xml", "\r\n",
      "X-Timestamp:", ts, "\r\n",
      "Path:ssml", "\r\n\r\n",
      "<speak version='1.0' xmlns='http://www.w3.org/2001/10/synthesis' xml:lang='en-US'><voice name='",
      config.voice_name, "'><prosody pitch='">>
        \o fmt_signed(config.pitch) \o <<"Hz' rate='">>
        \o fmt_signed(config.rate) \o <<"%' volume='">>
        \o fmt_signed(config.volume) \o <<"%'>">>
        \o text
        \o <<"</prosody></voice></speak>">>

\* A caller's text and config.
BuildInit ==
    /\ variant \in {"sync", "async"}
    /\ pc = "build"
    /\ calls = 0
    /\ conn = "open"
    /\ fused = FALSE
    /\ sent = <<>>
    /\ audio_format = ""
    /\ turn_start = FALSE
    /\ response = FALSE
    /\ turn_end = FALSE
    /\ audio_bytes = <<>>
    /\ audio_metadata = <<>>
    /\ recvd = <<>>
    /\ last_read = "-"
    /\ ProxyIdle
    /\ UsageIdle
    /\ result = NoResult
    /\ StreamIdle
    /\ \E t \in Texts, c \in SpeechConfigs :
          req = [text |-> t, config |-> c, built |-> <<>>]

\* let config_message = build_config_message(config);
BuildConfig ==
    /\ pc = "build"
    /\ req.built = <<>>
    /\ \E ts \in Timestamps :
          req' = [req EXCEPT !.built = <<build_config_message(req.config, ts)>>]
    /\ UNCHANGED <<proxyVars, usageVars, variant, calls, conn, fused, sent, turn_start,
                   response, turn_end, last_read, clientVars, streamVars>>

\* let ssml_message = build_ssml_message(text, config);
BuildSsml ==
    /\ pc = "build"
    /\ Len(req.built) = 1
    /\ \E u \in Uuids, ts \in Timestamps :
          req' = [req EXCEPT !.built =
                     Append(@, build_ssml_message(req.text, req.config, u, ts))]
    /\ UNCHANGED <<proxyVars, usageVars, variant, calls, conn, fused, sent, turn_start,
                   response, turn_end, last_read, clientVars, streamVars>>

BuildNext == BuildConfig \/ BuildSsml

BuildSpec == BuildInit /\ [][BuildNext]_vars

\* ---------------------------------------------------------------------
\* C32: the layout of the two messages.

\* The first place in a message where \r\n\r\n occurs, as one piece or as
\* two \r\n pieces in a row; 0 if nowhere.
FirstSeparator(m) ==
    LET at(i) == \/ m[i] = "\r\n\r\n"
                 \/ i < Len(m) /\ m[i] = "\r\n" /\ m[i + 1] = "\r\n"
        hits == {i \in 1..Len(m) : at(i)}
    IN  IF hits = {} THEN 0 ELSE CHOOSE i \in hits : \A j \in hits : i <= j

\* The header block has the line `line`: the piece stands at the start of the
\* message or after a line break, and a line break or the separator follows.
HasHeaderLine(m, line) ==
    \E i \in 1..(FirstSeparator(m) - 1) :
        /\ m[i] = line
        /\ i = 1 \/ m[i - 1] = "\r\n"
        /\ m[i + 1] \in {"\r\n", "\r\n\r\n"}

MessageBody(m) == SubSeq(m, FirstSeparator(m) + 1, Len(m))

Signed(n, sign, digits) ==
    /\ sign = (IF n >= 0 THEN "+" ELSE "-")
    /\ digits = ToString(IF n >= 0 THEN n ELSE 0 - n)

\* C32: for every text and config, each of the two messages is a header
\* block, the first \r\n\r\n, and the body; the header block of the first has
\* the line Path:speech.config and that of the second Path:ssml; the SSML
\* body has the caller's text, piece for piece, between the prosody tags, and
\* pitch, rate and volume with a sign, + for zero and positive values.
C32_MessageLayout ==
    /\ Len(req.built) >= 1 =>
          LET m == req.built[1] IN
          /\ FirstSeparator(m) > 0
          /\ HasHeaderLine(m, "Path:speech.config")
          /\ MessageBody(m) = <<SPEECH_CONFIG_HEAD, req.config.audio_format, SPEECH_CONFIG_TAIL>>
    /\ Len(req.built) >= 2 =>
          LET m == req.built[2]
              b == MessageBody(m)
              n == Len(b)
              k == Len(req.text)
          IN  /\ FirstSeparator(m) > 0
              /\ HasHeaderLine(m, "Path:ssml")
              /\ n = 13 + k
              /\ b[3] = "'><prosody pitch='"
              /\ Signed(req.config.pitch, b[4], b[5])
              /\ b[6] = "Hz' rate='"
              /\ Signed(req.config.rate, b[7], b[8])
              /\ b[9] = "%' volume='"
              /\ Signed(req.config.volume, b[10], b[11])
              /\ b[12] = "%'>"
              /\ SubSeq(b, 13, n - 1) = req.text
              /\ b[n] = "</prosody></voice></speak>"

\* Both messages were built for a text that holds the separator and an
\* XML-unsafe character, with a negative pitch, a zero rate and a positive
\* volume.
C32_Witness ==
    /\ Len(req.built) = 2
    /\ req.text = <<"\r\n\r\n", "<">>
    /\ req.config.pitch = -12 /\ req.config.rate = 0 /\ req.config.volume = 7
    /\ SubSeq(MessageBody(req.built[2]), 4, 5) = <<"-", "12">>
    /\ SubSeq(MessageBody(req.built[2]), 7, 8) = <<"+", "0">>


\* ---------------------------------------------------------------------
\* C33: the blocking pair and its two mutexes.

\* A side is at the gate: about to lock the gate's mutex, holding it at the
\* head of its while loop, or in cvar.wait.
SenderAtGate == spc \in {"lock_gate", "check", "waiting", "woken"}
ReaderAtGate == rpc \in {"lock_gate", "check", "waiting", "woken"}

\* Whoever holds the connection's mutex holds the gate's mutex, and nobody
\* at the gate holds the connection's mutex.
GateBeforeConnection ==
    /\ ws_lock = "sender" => gate_lock = "sender"
    /\ ws_lock = "reader" => gate_lock = "reader"
    /\ SenderAtGate => ws_lock # "sender"
    /\ ReaderAtGate => ws_lock # "reader"

\* C33: in the blocking pair the connection's mutex is only taken and held
\* under the gate's mutex and never held by a side that is at the gate, and,
\* under fair scheduling, a Sender at the gate while the gate is 'no data
\* pending' comes to its first write and a Reader at the gate while the gate
\* is 'data pending' comes to its read of the connection.
C33_NoDeadlockAtGate ==
    /\ [](variant = "sync" => GateBeforeConnection)
    /\ (variant = "sync" /\ SenderAtGate /\ ~can_read) ~> (spc = "send_config")
    /\ (variant = "sync" /\ ReaderAtGate /\ can_read) ~> (rpc = "read")

\* The Sender's second send waited on the condition variable and has been
\* woken by the Reader's reset of the gate.
C33_Witness ==
    /\ variant = "sync"
    /\ spc = "woken"
    /\ calls = 2
    /\ resets = 1
    /\ ~can_read
    /\ gate_lock = "none" /\ ws_lock = "none"


\* ---------------------------------------------------------------------
\* C34: the stream Reader and the one-shot client on the end of a turn.

\* synthesize, which starts a request with the three flags false and
\* classifies the same frames with process_message, leaves its loop after the
\* frame read in this step: the frame is classified without error and
\* turn_end is set at the next head of the loop.
SynthesizeReturnsHere ==
    LET pm == process_message(Head(net), turn_start, response, turn_end)
    IN  pm.res.tag \notin {"Panic", "Err"} /\ ~LoopContinues(pm.turn_end)

\* The read of this frame flips the gate back (ReaderAsync does so in the
\* step that follows, on the gate's lock).
GateFlipsHere ==
    IF variant = "sync" THEN can_read /\ ~can_read' ELSE rpc' = "reset_gate"

\* C34: in both variants, a read that takes a frame flips the gate back to
\* 'no data pending' exactly when synthesize would return after that frame.
C34_ReaderAgreesWithSynthesize ==
    [][ReadsFrame => (GateFlipsHere <=> SynthesizeReturnsHere)]_vars


\* ---------------------------------------------------------------------
\* C35: a send that fails on one of its two writes.
SendFails ==
    /\ spc \in {"send_config", "send_ssml"}
    /\ spc' = "idle"
    /\ send_result' = "Err"

\* C35: in both variants, a send that returns the error of its first or
\* second write leaves the gate at 'no data pending' and the Reader where it
\* is (nobody is woken, no frame is taken), and while the gate is 'no data
\* pending' the Reader is not past the gate.
C35_FailedSendKeepsGate ==
    [][/\ SendFails =>
            /\ ~can_read /\ ~can_read'
            /\ rpc' = rpc
            /\ net' = net
            /\ resets' = resets
       /\ ~can_read' => rpc' \notin {"lock_ws", "read", "reset_gate"}]_vars

\* The blocking Sender's second write has failed while the Reader waits on
\* the condition variable: the config message was written, the gate is
\* 'no data pending' and the Reader still waits.
C35_Witness ==
    /\ variant = "sync"
    /\ spc = "idle"
    /\ send_result = "Err"
    /\ sent = <<"speech.config">>
    /\ ~can_read
    /\ rpc = "waiting"


\* ---------------------------------------------------------------------
\* C36: a read that returns an error.
ReadReturnsError ==
    /\ rpc = "read"
    /\ rpc' = "idle"
    /\ read_result'.tag = "Err"

\* C36: in both variants, a read that returns an error (of the transport or
\* of the classification of the frame it took) leaves the gate at 'data
\* pending', the three flags as they were before it, and the Sender where it
\* is; and while the gate is 'data pending' the Sender is not past the gate.
C36_FailedReadKeepsGate ==
    [][/\ ReadReturnsError =>
            /\ can_read /\ can_read'
            /\ UNCHANGED <<turn_start, response, turn_end>>
            /\ resets' = resets
            /\ spc' = spc
       /\ (can_read /\ can_read') =>
            (spc' \in {"lock_ws", "send_config", "send_ssml", "set_gate"}
                => spc \in {"lock_ws", "send_config", "send_ssml", "set_gate"})]_vars

\* The blocking Reader has returned the error of a frame that classification
\* rejects, in the middle of a turn, while the Sender waits in its second
\* send: the gate and the flag of the turn keep.
C36_Witness ==
    /\ variant = "sync"
    /\ rpc = "idle"
    /\ read_result.tag = "Err"
    /\ last_read = "frame"
    /\ can_read
    /\ turn_start /\ ~turn_end
    /\ spc = "waiting"


\* ---------------------------------------------------------------------
\* C37: once the CONNECT request is written, the HTTP negotiation returns
\* (a stream or an error) when the proxy has closed the connection, whatever
\* it had sent, and when its response fits the buffer and ends with
\* \r\n\r\n, however the response is split across the reads.
C37_HttpConnectTerminates ==
    (/\ ppc \in {"http_read", "http_test"}
     /\ \/ ppeer = "closed"
        \/ TerminatorAtEnd(presponse) /\ Len(presponse) <= BufCap)
    ~> (ppc = "done")


\* ---------------------------------------------------------------------
\* C38: the length bytes of the SOCKS5 requests.

\* The bytes the username field takes after its length byte: an empty name
\* is sent as the one byte 0x00.
IdFieldLen == IF Len(username.s) = 0 THEN 1 ELSE Len(username.s)

\* C38: in the username/password request a SOCKS5 negotiation wrote, the
\* length byte of a non-empty user name and that of a non-empty password
\* equal the number of bytes of the field that follows; in a connection
\* request with a domain name (socks5h) the length byte equals the number
\* of bytes of the host name.
C38_LengthBytesCountTheField ==
    ProtocolOf(proxy) = "socks5" =>
        /\ (Len(pwritten) >= 2 /\ AuthRequest(pwritten[2])) =>
              LET m == pwritten[2] IN
              /\ Len(username.s) > 0 =>
                    /\ m[2] = Len(username.s)
                    /\ SubSeq(m, 3, 2 + Len(username.s)) = username.s
              /\ Len(password.s) > 0 =>
                    /\ m[3 + IdFieldLen] = Len(password.s)
                    /\ SubSeq(m, 4 + IdFieldLen, Len(m)) = password.s
        /\ \A i \in 1..Len(pwritten) :
              (ConnectionRequest(pwritten[i]) /\ pwritten[i][4] = 3) =>
                  /\ pwritten[i][5] = Len(target_host)
                  /\ Len(pwritten[i]) = 5 + Len(target_host) + 2

=============================================================================
